---- MODULE Spec2Model ----
(***************************************************************************)
(* A model of the elf64 decoder: the enumerated-code conversions, the      *)
(* fixed-size record decoders, Table, StringTable, NoteTable and the       *)
(* Elf64 facade.                                                           *)
(*                                                                         *)
(* Bytes are 0..255 and a buffer is a sequence of bytes (1-based here,     *)
(* 0-based in the source: source offset k is index k+1).  u8 and u16       *)
(* values are integers.  u32, u64 and usize values are "words":            *)
(* little-endian sequences of 4 or 8 bytes, so that arithmetic keeps its   *)
(* machine width and overflow is visible.                                  *)
(***************************************************************************)
EXTENDS Integers, Sequences, FiniteSets, TLC

VARIABLES
    profile,    \* "debug" (overflow checks panic) or "release" (wrapping)
    conv,       \* codec under test: type, code, decoded value, re-encoded code
    table,      \* a Table / decoder input: entry type, slice, encoding
    strtab,     \* a StringTable: its slice
    notes,      \* a NoteTable: slice, encoding
    position,   \* the caller's note cursor (&mut usize)
    raw,        \* the whole-file buffer handed to Elf64::new
    elf,        \* the result of Elf64::new
    res         \* the result of the last operation called

vars == <<profile, conv, table, strtab, notes, position, raw, elf, res>>

-----------------------------------------------------------------------------
(* Machine integers                                                        *)

Byte == 0..255

Profiles == {"debug", "release"}

\* The word of k bytes holding n, for 0 <= n < 2^31.
W(n, k) == [i \in 1..k |-> IF i <= 4 THEN (n \div (256 ^ (i - 1))) % 256 ELSE 0]

W32(n) == W(n, 4)

W64(n) == W(n, 8)

\* A word whose value is below 2^31, and that value.
Fits(w) == /\ \A i \in DOMAIN w : i > 4 => w[i] = 0
           /\ (Len(w) >= 4 => w[4] < 128)

Val(w) == LET b(i) == IF i <= Len(w) THEN w[i] ELSE 0
          IN  b(1) + 256 * b(2) + 65536 * b(3) + 16777216 * b(4)

\* a < b and a <= b on words of equal length.
LtW(a, b) == \E i \in DOMAIN a : /\ a[i] < b[i]
                                 /\ \A j \in DOMAIN a : j > i => a[j] = b[j]

LeqW(a, b) == a = b \/ LtW(a, b)

\* Addition at the words' width: the wrapped sum and whether it overflowed.
AddW(a, b) ==
    LET c[i \in 0..Len(a)] == IF i = 0 THEN 0 ELSE (a[i] + b[i] + c[i - 1]) \div 256
    IN  [v   |-> [i \in 1..Len(a) |-> (a[i] + b[i] + c[i - 1]) % 256],
         ovf |-> c[Len(a)] # 0]

\* Multiplication of a word by a small integer m, at the word's width.
MulW(a, m) ==
    LET c[i \in 0..Len(a)] == IF i = 0 THEN 0 ELSE (a[i] * m + c[i - 1]) \div 256
    IN  [v   |-> [i \in 1..Len(a) |-> (a[i] * m + c[i - 1]) % 256],
         ovf |-> c[Len(a)] # 0]

\* Bitwise and of two naturals, and of two words.
RECURSIVE BitAnd(_, _)
BitAnd(x, y) == IF x = 0 \/ y = 0 THEN 0
                ELSE (x % 2) * (y % 2) + 2 * BitAnd(x \div 2, y \div 2)

AndW(a, b) == [i \in DOMAIN a |-> BitAnd(a[i], b[i])]

\* t @ lo..=hi on a u32 word, lo and hi below 2^31.
InRange32(w, lo, hi) == LeqW(W32(lo), w) /\ LeqW(w, W32(hi))

Reverse(s) == [i \in 1..Len(s) |-> s[Len(s) + 1 - i]]

-----------------------------------------------------------------------------
(* Enumerated codes: From<code> for T and From<T> for code                 *)

V(tag, v) == [tag |-> tag, v |-> v]

Class_from(v) ==
    CASE v = 1 -> V("_32", 0)
      [] v = 2 -> V("_64", 0)
      [] OTHER -> V("Unknown", v)

Class_into(c) ==
    CASE c.tag = "_32" -> 1
      [] c.tag = "_64" -> 2
      [] OTHER -> c.v

\* Encoding::try_from taking every byte other than 1 for big-endian.
Encoding_try_from_any(v) ==
    IF v = 1 THEN [ok |-> TRUE, v |-> "Little"] ELSE [ok |-> TRUE, v |-> "Big"]

Encoding_try_from(v) ==
    CASE v = 1 -> [ok |-> TRUE, v |-> "Little"]
      [] v = 2 -> [ok |-> TRUE, v |-> "Big"]
      [] OTHER -> [ok |-> FALSE, v |-> v]

AbiNames ==
    <<  <<0, "SystemV">>, <<1, "HpUx">>, <<2, "NetBSD">>, <<3, "Linux">>,
        <<6, "Solaris">>, <<7, "Aix">>, <<8, "Irix">>, <<9, "FreeBSD">>,
        <<12, "OpenBSD">>, <<13, "OpenVMS">>, <<255, "Standalone">> >>

Abi_from(v) ==
    IF \E i \in DOMAIN AbiNames : AbiNames[i][1] = v
    THEN V(AbiNames[CHOOSE i \in DOMAIN AbiNames : AbiNames[i][1] = v][2], 0)
    ELSE V("Unknown", v)

Abi_into(a) ==
    IF a.tag = "Unknown" THEN a.v
    ELSE AbiNames[CHOOSE i \in DOMAIN AbiNames : AbiNames[i][2] = a.tag][1]

Type_from(v) ==
    CASE v = 0 -> V("None", 0)
      [] v = 1 -> V("Relocatable", 0)
      [] v = 2 -> V("Executable", 0)
      [] v = 3 -> V("SharedObject", 0)
      [] v = 4 -> V("Core", 0)
      [] v >= 65024 /\ v <= 65279 -> V("OsSpecific", BitAnd(v, 255))
      [] v >= 65280 /\ v <= 65535 -> V("ProcessorSpecific", BitAnd(v, 255))
      [] OTHER -> V("Unknown", v)

Type_into(t) ==
    CASE t.tag = "None" -> 0
      [] t.tag = "Relocatable" -> 1
      [] t.tag = "Executable" -> 2
      [] t.tag = "SharedObject" -> 3
      [] t.tag = "Core" -> 4
      [] t.tag = "OsSpecific" -> 65024 + t.v
      [] t.tag = "ProcessorSpecific" -> 65280 + t.v
      [] OTHER -> t.v

MachineNames ==
    <<  <<0, "None">>, <<2, "Sparc">>, <<3, "X86">>, <<8, "Mips">>,
        <<20, "PowerPC">>, <<40, "Arm">>, <<42, "SuperH">>, <<50, "Ia64">>,
        <<62, "X86_64">>, <<183, "AArch64">>, <<247, "BPF">> >>

Machine_from(v) ==
    IF \E i \in DOMAIN MachineNames : MachineNames[i][1] = v
    THEN V(MachineNames[CHOOSE i \in DOMAIN MachineNames : MachineNames[i][1] = v][2], 0)
    ELSE V("Unknown", v)

Machine_into(m) ==
    IF m.tag = "Unknown" THEN m.v
    ELSE MachineNames[CHOOSE i \in DOMAIN MachineNames : MachineNames[i][2] = m.tag][1]

Index_from(v) ==
    CASE v = 0 -> V("Undefined", 0)
      [] v >= 65280 /\ v <= 65311 -> V("ProcessorSecific", BitAnd(v, 31))
      [] v >= 65312 /\ v <= 65343 -> V("EnvironmentSpecific", BitAnd(v, 31))
      [] v = 65521 -> V("AbsoluteValue", 0)
      [] v = 65522 -> V("Common", 0)
      [] OTHER -> V("Regular", v)

\* Index_into with both reserved ranges rebuilt on the same base.
Index_into_one_base(x) ==
    CASE x.tag = "Undefined" -> 0
      [] x.tag = "ProcessorSecific" -> 65280 + BitAnd(x.v, 31)
      [] x.tag = "EnvironmentSpecific" -> 65280 + BitAnd(x.v, 31)
      [] x.tag = "AbsoluteValue" -> 65521
      [] x.tag = "Common" -> 65522
      [] OTHER -> x.v

Index_into(x) ==
    CASE x.tag = "Undefined" -> 0
      [] x.tag = "ProcessorSecific" -> 65280 + BitAnd(x.v, 31)
      [] x.tag = "EnvironmentSpecific" -> 65312 + BitAnd(x.v, 31)
      [] x.tag = "AbsoluteValue" -> 65521
      [] x.tag = "Common" -> 65522
      [] OTHER -> x.v

SymbolBinding_from(t) ==
    CASE t = 0 -> V("Local", 0)
      [] t = 1 -> V("Global", 0)
      [] t = 2 -> V("Weak", 0)
      [] t >= 10 /\ t <= 12 -> V("OsSpecific", t - 10)
      [] t >= 13 /\ t <= 15 -> V("ProcessorSpecific", t - 13)
      [] OTHER -> V("Unknown", t)

SymbolType_from(t) ==
    CASE t = 0 -> V("Nothing", 0)
      [] t = 1 -> V("Object", 0)
      [] t = 2 -> V("Function", 0)
      [] t = 3 -> V("Section", 0)
      [] t = 4 -> V("File", 0)
      [] t >= 10 /\ t <= 12 -> V("OsSpecific", t - 10)
      [] t >= 13 /\ t <= 15 -> V("ProcessorSpecific", t - 13)
      [] OTHER -> V("Unknown", t)

SymbolInfo_from(v) ==
    [binding |-> SymbolBinding_from(BitAnd(v, 240) \div 16),
     type_   |-> SymbolType_from(BitAnd(v, 15))]

SymbolInfo_into(s) ==
    LET high == CASE s.binding.tag = "Local" -> 0
                  [] s.binding.tag = "Global" -> 1
                  [] s.binding.tag = "Weak" -> 2
                  [] s.binding.tag = "OsSpecific" -> s.binding.v + 10
                  [] s.binding.tag = "ProcessorSpecific" -> s.binding.v + 13
                  [] OTHER -> s.binding.v
        low  == CASE s.type_.tag = "Nothing" -> 0
                  [] s.type_.tag = "Object" -> 1
                  [] s.type_.tag = "Function" -> 2
                  [] s.type_.tag = "Section" -> 3
                  [] s.type_.tag = "File" -> 4
                  [] s.type_.tag = "OsSpecific" -> s.type_.v + 10
                  [] s.type_.tag = "ProcessorSpecific" -> s.type_.v + 13
                  [] OTHER -> s.type_.v
    IN  high * 16 + low

ProgramTypeNames ==
    << "Null", "Load", "Dynamic", "Interpreter", "Note", "Shlib", "ProgramHeaderTable" >>

ProgramType_from(v) ==
    CASE Fits(v) /\ Val(v) < Len(ProgramTypeNames) ->
             V(ProgramTypeNames[Val(v) + 1], W32(0))
      [] InRange32(v, 1610612736, 1879048191) -> V("OsSpecific", v)
      [] InRange32(v, 1879048192, 2147483647) -> V("ProcessorSprcific", v)
      [] OTHER -> V("Unknown", v)

\* `0x60000000 + t & 0x0fffffff` parses as `(0x60000000 + t) & 0x0fffffff`.
ProgramType_into(p) ==
    CASE p.tag = "OsSpecific" ->
             AndW(AddW(W32(1610612736), p.v).v, W32(268435455))
      [] p.tag = "ProcessorSprcific" ->
             AndW(AddW(W32(1879048192), p.v).v, W32(268435455))
      [] p.tag = "Unknown" -> p.v
      [] OTHER -> W32((CHOOSE i \in DOMAIN ProgramTypeNames :
                           ProgramTypeNames[i] = p.tag) - 1)

SectionTypeNames ==
    << "Null", "ProgramBits", "SymbolTable", "StringTable", "Rela", "Hash",
       "Dynamic", "Note", "NoBits", "Rel", "Shlib", "DynamicSymbolTable" >>

SectionType_from(v) ==
    CASE Fits(v) /\ Val(v) < Len(SectionTypeNames) ->
             V(SectionTypeNames[Val(v) + 1], W32(0))
      [] InRange32(v, 1610612736, 1879048191) -> V("OsSpecific", v)
      [] InRange32(v, 1879048192, 2147483647) -> V("ProcessorSprcific", v)
      [] OTHER -> V("Unknown", v)

SectionType_into(s) ==
    CASE s.tag = "OsSpecific" ->
             AndW(AddW(W32(1610612736), s.v).v, W32(268435455))
      [] s.tag = "ProcessorSprcific" ->
             AndW(AddW(W32(1879048192), s.v).v, W32(268435455))
      [] s.tag = "Unknown" -> s.v
      [] OTHER -> W32((CHOOSE i \in DOMAIN SectionTypeNames :
                           SectionTypeNames[i] = s.tag) - 1)

-----------------------------------------------------------------------------
(* Results: Ok(value), Err(error) or a panic.  `reads` is the set of       *)
(* 0-based offsets of the slice the operation has read.                    *)

Ok(v, rd) == [tag |-> "Ok", val |-> v, err |-> "", reads |-> rd]

Err(e) == [tag |-> "Err", val |-> << >>, err |-> e, reads |-> {}]

Panic == [tag |-> "Panic", val |-> << >>, err |-> "", reads |-> {}]

\* The same result, its reads seen from a slice that starts `by` bytes earlier.
Shifted(r, by) == [r EXCEPT !.reads = { x + by : x \in r.reads }]

\* Error::SliceTooShort and Error::NotEnoughData are the two names the
\* sources give the truncation error.
IsTruncation(r) == r.tag = "Err" /\ r.err \in {"SliceTooShort", "NotEnoughData"}

-----------------------------------------------------------------------------
(* byteorder reads: ByteOrder::read_u16 / read_u32 / read_u64 / read_i64   *)

\* &slice[lo..hi], which panics unless lo <= hi <= slice.len().
CanSlice(slice, lo, hi) == lo <= hi /\ hi <= Len(slice)

read_word(slice, lo, hi, encoding) ==
    IF encoding = "Little" THEN SubSeq(slice, lo + 1, hi)
    ELSE Reverse(SubSeq(slice, lo + 1, hi))

read_u16(slice, lo, encoding) == Val(read_word(slice, lo, lo + 2, encoding))

read_u32(slice, lo, encoding) == read_word(slice, lo, lo + 4, encoding)

read_u64(slice, lo, encoding) == read_word(slice, lo, lo + 8, encoding)

-----------------------------------------------------------------------------
(* Fixed-size record decoders: Entry::new                                  *)

ProgramHeader_SIZE == 56

SectionHeader_SIZE == 64

SymbolEntry_SIZE == 24

RelEntry_SIZE == 16

RelaEntry_SIZE == 24

\* Flags::from_bits_truncate keeps the defined bits: write, alloc, exec.
Flags_from_bits_truncate(w) == AndW(w, W32(7))

\* The field reads of ProgramHeader::new, after its length check.
ProgramHeader_fields(slice, encoding) ==
    IF ~CanSlice(slice, 0, 56) THEN Panic
    ELSE Ok([type_             |-> ProgramType_from(read_u32(slice, 0, encoding)),
             flags             |-> read_u32(slice, 4, encoding),
             file_offset       |-> read_u64(slice, 8, encoding),
             virtual_address   |-> read_u64(slice, 16, encoding),
             physical_address  |-> read_u64(slice, 24, encoding),
             file_size         |-> read_u64(slice, 32, encoding),
             memory_size       |-> read_u64(slice, 40, encoding),
             address_alignment |-> read_u64(slice, 48, encoding)],
            0..55)

\* ProgramHeader::new without its length check.
ProgramHeader_new_unchecked(slice, encoding) == ProgramHeader_fields(slice, encoding)

ProgramHeader_new(slice, encoding) ==
    IF Len(slice) < ProgramHeader_SIZE THEN Err("NotEnoughData")
    ELSE ProgramHeader_fields(slice, encoding)

\* The field reads of SectionHeader::new; slice[0x0c..0x10] is ignored.
SectionHeader_fields(slice, encoding) ==
    IF ~CanSlice(slice, 0, 64) THEN Panic
    ELSE Ok([name              |-> read_u32(slice, 0, encoding),
             type_             |-> SectionType_from(read_u32(slice, 4, encoding)),
             flags             |-> Flags_from_bits_truncate(read_u32(slice, 8, encoding)),
             address           |-> read_u64(slice, 16, encoding),
             offset            |-> read_u64(slice, 24, encoding),
             size              |-> read_u64(slice, 32, encoding),
             link              |-> SectionType_from(read_u32(slice, 40, encoding)),
             info              |-> SectionType_from(read_u32(slice, 44, encoding)),
             address_alignment |-> read_u64(slice, 48, encoding),
             number_of_entries |-> read_u64(slice, 56, encoding)],
            (0..11) \cup (16..63))

SectionHeader_new(slice, encoding) ==
    IF Len(slice) < SectionHeader_SIZE THEN Err("NotEnoughData")
    ELSE SectionHeader_fields(slice, encoding)

\* SymbolEntry::new's field reads without the look at the reserved byte.
SymbolEntry_fields_unreserved(slice, encoding) ==
    IF ~CanSlice(slice, 0, 24) THEN Panic
    ELSE Ok([name          |-> read_u32(slice, 0, encoding),
             info          |-> SymbolInfo_from(slice[4 + 1]),
             reserved      |-> 0,
             section_index |-> Index_from(read_u16(slice, 6, encoding)),
             value         |-> read_u64(slice, 8, encoding),
             size          |-> read_u64(slice, 16, encoding)],
            (0..4) \cup (6..23))

\* The reads of SymbolEntry::new: the reserved byte first, then the fields.
SymbolEntry_fields(slice, encoding) ==
    IF ~CanSlice(slice, 0, 24) THEN Panic
    ELSE IF slice[5 + 1] # 0
         THEN [Err("ReservedFieldIsNotZero") EXCEPT !.reads = {5}]
         ELSE Ok([name          |-> read_u32(slice, 0, encoding),
                  info          |-> SymbolInfo_from(slice[4 + 1]),
                  reserved      |-> 0,
                  section_index |-> Index_from(read_u16(slice, 6, encoding)),
                  value         |-> read_u64(slice, 8, encoding),
                  size          |-> read_u64(slice, 16, encoding)],
                 0..23)

SymbolEntry_new(slice, encoding) ==
    IF Len(slice) < SymbolEntry_SIZE THEN Err("NotEnoughData")
    ELSE SymbolEntry_fields(slice, encoding)

\* temp / 0x100000000 and temp & 0xffffffff of a 64-bit word.
\* (temp / 0x100000000) as u32 with the division left out.
HighHalf_undivided(temp) == SubSeq(temp, 1, 4)

HighHalf(temp) == SubSeq(temp, 5, 8)

LowHalf(temp) == SubSeq(temp, 1, 4)

RelEntry_fields(slice, encoding) ==
    IF ~CanSlice(slice, 0, 16) THEN Panic
    ELSE LET temp == read_u64(slice, 8, encoding)
         IN  Ok([address         |-> read_u64(slice, 0, encoding),
                 symbol_index    |-> HighHalf(temp),
                 relocation_type |-> LowHalf(temp)],
                0..15)

RelEntry_new(slice, encoding) ==
    IF Len(slice) < RelEntry_SIZE THEN Err("NotEnoughData")
    ELSE RelEntry_fields(slice, encoding)

\* read_i64: the two's-complement reading of a 64-bit word.
I64(w) == [neg |-> w[8] >= 128, bits |-> w]

RelaEntry_fields(slice, encoding) ==
    IF ~CanSlice(slice, 0, 24) THEN Panic
    ELSE LET temp == read_u64(slice, 8, encoding)
         IN  Ok([address         |-> read_u64(slice, 0, encoding),
                 symbol_index    |-> HighHalf(temp),
                 relocation_type |-> LowHalf(temp),
                 addend          |-> I64(read_u64(slice, 16, encoding))],
                0..23)

RelaEntry_new(slice, encoding) ==
    IF Len(slice) < RelaEntry_SIZE THEN Err("NotEnoughData")
    ELSE RelaEntry_fields(slice, encoding)

EntryTypes == {"ProgramHeader", "SectionHeader", "SymbolEntry", "RelEntry", "RelaEntry"}

\* E::SIZE and E::new for the record type E.
Entry_SIZE(entry) ==
    CASE entry = "ProgramHeader" -> ProgramHeader_SIZE
      [] entry = "SectionHeader" -> SectionHeader_SIZE
      [] entry = "SymbolEntry" -> SymbolEntry_SIZE
      [] entry = "RelEntry" -> RelEntry_SIZE
      [] entry = "RelaEntry" -> RelaEntry_SIZE

Entry_new(entry, slice, encoding) ==
    CASE entry = "ProgramHeader" -> ProgramHeader_new(slice, encoding)
      [] entry = "SectionHeader" -> SectionHeader_new(slice, encoding)
      [] entry = "SymbolEntry" -> SymbolEntry_new(slice, encoding)
      [] entry = "RelEntry" -> RelEntry_new(slice, encoding)
      [] entry = "RelaEntry" -> RelaEntry_new(slice, encoding)

-----------------------------------------------------------------------------
(* Table<E>                                                                *)

Table_new(entry, slice, encoding) ==
    [entry |-> entry, slice |-> slice, encoding |-> encoding]

\* usize arithmetic: with overflow checks an overflow panics, without them
\* it wraps.  `ok` is FALSE where the operation panics.
USize(r, prof) == [ok |-> ~(r.ovf /\ prof = "debug"), v |-> r.v]

usize_add(a, b, prof) == USize(AddW(a, b), prof)

usize_mul(a, m, prof) == USize(MulW(a, m), prof)

\* Table::pick(index), the index a usize.
Table_pick(t, index, prof) ==
    LET size  == Entry_SIZE(t.entry)
        start == usize_mul(index, size, prof)
    IN  IF ~start.ok THEN Panic
        ELSE IF LtW(W64(Len(t.slice)), start.v) THEN Err("SliceTooShort")
        ELSE LET from == Val(start.v)
                 slice == SubSeq(t.slice, from + 1, Len(t.slice))
             IN  IF Len(slice) < size THEN Err("SliceTooShort")
                 ELSE Shifted(Entry_new(t.entry, SubSeq(slice, 1, size), t.encoding),
                              from)

\* Table::length(): the number of whole records of the region.
Table_length(t) == Len(t.slice) \div Entry_SIZE(t.entry)

-----------------------------------------------------------------------------
(* core::str::from_utf8                                                    *)

IsCont(b) == b >= 128 /\ b <= 191

\* The length of the sequence a lead byte opens; 0 for a byte that opens none.
SeqLen(b) ==
    CASE b < 128 -> 1
      [] b >= 194 /\ b <= 223 -> 2
      [] b >= 224 /\ b <= 239 -> 3
      [] b >= 240 /\ b <= 244 -> 4
      [] OTHER -> 0

\* The second byte a lead byte admits (no overlong forms, no surrogates,
\* nothing above U+10FFFF).
SecondOk(b, c) ==
    CASE b = 224 -> c >= 160 /\ c <= 191
      [] b = 237 -> c >= 128 /\ c <= 159
      [] b = 240 -> c >= 144 /\ c <= 191
      [] b = 244 -> c >= 128 /\ c <= 143
      [] OTHER -> IsCont(c)

\* Whether s is well-formed UTF-8: it starts with a lead byte, and every lead
\* byte opens a complete sequence that the next lead byte (or the end) follows.
Utf8Valid(s) ==
    /\ (Len(s) > 0 => ~IsCont(s[1]))
    /\ \A i \in 1..Len(s) :
          ~IsCont(s[i]) =>
              LET k == SeqLen(s[i])
              IN  /\ k >= 1
                  /\ i + k - 1 <= Len(s)
                  /\ \A j \in (i + 1)..(i + k - 1) : IsCont(s[j])
                  /\ (k >= 2 => SecondOk(s[i], s[i + 1]))
                  /\ (i + k <= Len(s) => ~IsCont(s[i + k]))

\* from_utf8(bytes).map_err(Error::Utf8Error), having read `rd`.
from_utf8(bytes, rd) ==
    IF Utf8Valid(bytes) THEN Ok(bytes, rd)
    ELSE [Err("Utf8Error") EXCEPT !.reads = rd]

-----------------------------------------------------------------------------
(* StringTable                                                             *)

MAX_LENGTH == 255

\* The loop of StringTable::pick without the test of MAX_LENGTH.
ScanLength_uncapped(slice, index) ==
    LET leaves(length) == \/ index + length >= Len(slice)
                          \/ slice[index + length + 1] = 0
        last == CHOOSE length \in 0..Len(slice) :
                    /\ leaves(length)
                    /\ \A shorter \in 0..(length - 1) : ~leaves(shorter)
    IN  IF index + last >= Len(slice) THEN -1 ELSE last

\* The loop of StringTable::pick: the length at which it breaks, or -1 where
\* it returns the error.  The loop leaves at the first length where the read
\* would pass the end, the byte is zero, or the length is MAX_LENGTH.
ScanLength(slice, index) ==
    LET leaves(length) == \/ index + length >= Len(slice)
                          \/ slice[index + length + 1] = 0
                          \/ length = MAX_LENGTH
        last == CHOOSE length \in 0..MAX_LENGTH :
                    /\ leaves(length)
                    /\ \A shorter \in 0..(length - 1) : ~leaves(shorter)
    IN  IF index + last >= Len(slice) THEN -1 ELSE last

\* StringTable::pick with the view ending after the byte that stopped the scan.
StringTable_pick_past_end(slice, index) ==
    IF ~Fits(index) \/ Val(index) >= Len(slice) THEN Err("NotEnoughData")
    ELSE LET at == Val(index)
             length == ScanLength(slice, at)
         IN  IF length < 0
             THEN [Err("NotEnoughData") EXCEPT !.reads = at..(Len(slice) - 1)]
             ELSE from_utf8(SubSeq(slice, at + 1, at + length + 1), at..(at + length))

\* StringTable::pick(index), the index a usize.  index + length cannot
\* overflow: the first test, with length 0, returns unless index < len.
StringTable_pick(slice, index) ==
    IF ~Fits(index) \/ Val(index) >= Len(slice) THEN Err("NotEnoughData")
    ELSE LET at == Val(index)
             length == ScanLength(slice, at)
         IN  IF length < 0
             THEN [Err("NotEnoughData") EXCEPT !.reads = at..(Len(slice) - 1)]
             ELSE from_utf8(SubSeq(slice, at + 1, at + length), at..(at + length))

-----------------------------------------------------------------------------
(* NoteTable                                                               *)

\* Subtraction at the words' width, for a >= b.
SubW(a, b) ==
    LET c[i \in 0..Len(a)] == IF i = 0 THEN 0
                              ELSE IF a[i] - b[i] - c[i - 1] < 0 THEN 1 ELSE 0
    IN  [i \in 1..Len(a) |-> (a[i] - b[i] - c[i - 1] + 256) % 256]

\* let align8 = |x: usize| if x % 8 == 0 { x } else { x + 8 - x % 8 };
align8(x, prof) ==
    IF x[1] % 8 = 0 THEN [ok |-> TRUE, v |-> x]
    ELSE LET sum == usize_add(x, W64(8), prof)
         IN  [ok |-> sum.ok, v |-> SubW(sum.v, W64(x[1] % 8))]

\* A view &slice[lo..hi]: where it lies in the region, and its bytes.
View(slice, lo, hi) == [lo |-> lo, hi |-> hi, bytes |-> SubSeq(slice, lo + 1, hi)]

\* NoteTable::next(&mut position): the result and the position it leaves.
\* The three header fields are read from slice[0x00..0x18].
NoteTable_next(t, pos, prof) ==
    LET len        == W64(Len(t.slice))
        stay(r)    == [r |-> r, position |-> pos]
        head_end   == usize_add(pos, W64(24), prof)
        name_size  == read_u64(t.slice, 0, t.encoding)
        desc_size  == read_u64(t.slice, 8, t.encoding)
        type_      == read_u64(t.slice, 16, t.encoding)
        name_al    == align8(name_size, prof)
        desc_al    == align8(desc_size, prof)
        with_name  == usize_add(head_end.v, name_al.v, prof)
        new_pos    == usize_add(with_name.v, desc_al.v, prof)
        str_start  == head_end.v
        str_end    == usize_add(str_start, name_size, prof)
        name       == from_utf8(SubSeq(t.slice, Val(str_start) + 1, Val(str_end.v)),
                                (0..23) \cup (Val(str_start)..(Val(str_end.v) - 1)))
    IN  IF ~head_end.ok THEN stay(Panic)
        ELSE IF LtW(len, head_end.v) THEN stay(Err("NotEnoughData"))
        ELSE IF ~CanSlice(t.slice, 0, 24) THEN stay(Panic)
        ELSE IF ~name_al.ok \/ ~desc_al.ok THEN stay(Panic)
        ELSE IF ~with_name.ok \/ ~new_pos.ok THEN stay(Panic)
        ELSE IF LtW(len, new_pos.v) THEN stay(Err("NotEnoughData"))
        ELSE IF ~str_end.ok THEN stay(Panic)
        ELSE IF ~(LeqW(str_start, str_end.v) /\ LeqW(str_end.v, len)) THEN stay(Panic)
        ELSE IF name.tag = "Err" THEN stay(name)
        ELSE IF ~LeqW(str_end.v, new_pos.v) THEN stay(Panic)
        ELSE [r |-> Ok([type_       |-> type_,
                        name        |-> View(t.slice, Val(str_start), Val(str_end.v)),
                        description |-> View(t.slice, Val(str_end.v), Val(new_pos.v))],
                       name.reads),
              position |-> new_pos.v]

-----------------------------------------------------------------------------
(* Values the variables hold while their component is not in use           *)

NoConv == [ty |-> "none", code |-> 0, val |-> 0, back |-> 0, done |-> FALSE]

NoTable == [entry |-> "none", slice |-> << >>, encoding |-> "Little"]

NoNotes == [slice |-> << >>, encoding |-> "Little"]

NoRes == [op |-> "none"]

NoElf == [tag |-> "none"]

-----------------------------------------------------------------------------
(* Round trips of the enumerated codes                                     *)

\* Low bytes 0..MaxLowByte of the sampled 32-bit codes cover the named codes.
MaxLowByte == 12

\* 32-bit codes: the named codes, both ends of the OS-specific and of the
\* processor-specific range, their neighbours, and codes above 2^31.
Codes32 ==
    { << a, b, c, d >> : a \in (0..MaxLowByte) \cup {254, 255},
                         b \in {0, 255}, c \in {0, 255},
                         d \in {0, 95, 96, 111, 112, 127, 128, 255} }

Codes16 == 0..65535

Codes8 == 0..255

From(ty, c) ==
    CASE ty = "Class" -> Class_from(c)
      [] ty = "Abi" -> Abi_from(c)
      [] ty = "Type" -> Type_from(c)
      [] ty = "Machine" -> Machine_from(c)
      [] ty = "Index" -> Index_from(c)
      [] ty = "SymbolInfo" -> SymbolInfo_from(c)
      [] ty = "ProgramType" -> ProgramType_from(c)
      [] ty = "SectionType" -> SectionType_from(c)

Into(ty, v) ==
    CASE ty = "Class" -> Class_into(v)
      [] ty = "Abi" -> Abi_into(v)
      [] ty = "Type" -> Type_into(v)
      [] ty = "Machine" -> Machine_into(v)
      [] ty = "Index" -> Index_into(v)
      [] ty = "SymbolInfo" -> SymbolInfo_into(v)
      [] ty = "ProgramType" -> ProgramType_into(v)
      [] ty = "SectionType" -> SectionType_into(v)

\* No conversion of a decoded value overflows, so one profile is enough here.
InitCodec ==
    /\ profile = "debug"
    /\ conv = NoConv
    /\ table = NoTable
    /\ strtab = << >>
    /\ notes = NoNotes
    /\ position = W64(0)
    /\ raw = << >>
    /\ elf = NoElf
    /\ res = NoRes

\* T::from(c): the caller converts a code read from a file.
Decode(ty, codes) ==
    /\ conv.ty = "none"
    /\ \E c \in codes :
          conv' = [ty |-> ty, code |-> c, val |-> From(ty, c),
                   back |-> c, done |-> FALSE]
    /\ UNCHANGED <<profile, table, strtab, notes, position, raw, elf, res>>

DecodeClass == Decode("Class", Codes8)

DecodeAbi == Decode("Abi", Codes8)

DecodeSymbolInfo == Decode("SymbolInfo", Codes8)

DecodeType == Decode("Type", Codes16)

DecodeMachine == Decode("Machine", Codes16)

DecodeIndex == Decode("Index", Codes16)

DecodeProgramType == Decode("ProgramType", Codes32)

DecodeSectionType == Decode("SectionType", Codes32)

\* code::from(value): the decoded value is converted back.
Encode ==
    /\ conv.ty # "none"
    /\ ~conv.done
    /\ conv' = [conv EXCEPT !.back = Into(conv.ty, conv.val), !.done = TRUE]
    /\ UNCHANGED <<profile, table, strtab, notes, position, raw, elf, res>>

NextCodec ==
    \/ DecodeClass
    \/ DecodeAbi
    \/ DecodeSymbolInfo
    \/ DecodeType
    \/ DecodeMachine
    \/ DecodeIndex
    \/ DecodeProgramType
    \/ DecodeSectionType
    \/ Encode

SpecCodec == InitCodec /\ [][NextCodec]_vars

\* C1: converting a 32-bit code to ProgramType or to SectionType and back
\* yields the code, for every code.
RoundTrip32 ==
    (conv.done /\ conv.ty \in {"ProgramType", "SectionType"})
        => conv.back = conv.code

\* C2: converting a code to Class, Abi, Type, Machine, Index or SymbolInfo
\* and back yields the code, for every code of the field's width.
RoundTripSmall ==
    (conv.done /\ conv.ty \in {"Class", "Abi", "Type", "Machine", "Index", "SymbolInfo"})
        => conv.back = conv.code

\* C2 happens: an environment-specific section index and a symbol info byte
\* with processor-specific binding have been converted and converted back.
RoundTripSmallSeen ==
    /\ conv.done
    /\ \/ conv.ty = "Index" /\ conv.code = 65343
          /\ conv.val = V("EnvironmentSpecific", 31)
       \/ conv.ty = "SymbolInfo" /\ conv.code = 250
          /\ conv.val.binding = V("ProcessorSpecific", 2)

-----------------------------------------------------------------------------
(* Tables and record decoders over a region                                *)

\* Regions of 0..MaxSlice bytes: room for two records of the largest type.
MaxSlice == 130

\* Small indices 0..MaxIndex, and indices whose product with SIZE passes 2^64.
MaxIndex == 3

\* Byte patterns of a region: byte i is (k * i) mod 256; k = 0 is all zeros,
\* k = 128 alternates 128 and 0 with 0 at the odd offsets.
Fills == {0, 1, 37, 128}

Fill(len, k) == [i \in 1..len |-> (k * i) % 256]

Encodings == {"Little", "Big"}

\* 2^61, 2^61 + 1 and 2^64 - 1.
HugeIndexes ==
    { << 0, 0, 0, 0, 0, 0, 0, 32 >>, << 1, 0, 0, 0, 0, 0, 0, 32 >>,
      << 255, 255, 255, 255, 255, 255, 255, 255 >> }

Indexes == { W64(i) : i \in 0..MaxIndex } \cup HugeIndexes

InitTable ==
    /\ profile \in Profiles
    /\ conv = NoConv
    /\ \E entry \in EntryTypes, len \in 0..MaxSlice, k \in Fills, encoding \in Encodings :
          table = Table_new(entry, Fill(len, k), encoding)
    /\ strtab = << >>
    /\ notes = NoNotes
    /\ position = W64(0)
    /\ raw = << >>
    /\ elf = NoElf
    /\ res = NoRes

\* The caller is done with the last result.
Drop ==
    /\ res.op # "none"
    /\ res' = NoRes
    /\ UNCHANGED <<profile, conv, table, strtab, notes, position, raw, elf>>

\* table.pick(index)
Pick ==
    /\ res.op = "none"
    /\ \E index \in Indexes :
          res' = [op |-> "pick", index |-> index,
                  r |-> Table_pick(table, index, profile)]
    /\ UNCHANGED <<profile, conv, table, strtab, notes, position, raw, elf>>

\* E::new(region, encoding) on the whole region
New ==
    /\ res.op = "none"
    /\ res' = [op |-> "new", index |-> W64(0),
               r |-> Entry_new(table.entry, table.slice, table.encoding)]
    /\ UNCHANGED <<profile, conv, table, strtab, notes, position, raw, elf>>

\* table.length()
Length ==
    /\ res.op = "none"
    /\ res' = [op |-> "length", index |-> W64(0),
               r |-> Ok(Table_length(table), {})]
    /\ UNCHANGED <<profile, conv, table, strtab, notes, position, raw, elf>>

NextTable ==
    \/ Pick
    \/ New
    \/ Length
    \/ Drop

SpecTable == InitTable /\ [][NextTable]_vars

SameResult(a, b) ==
    /\ a.tag = b.tag
    /\ a.err = b.err
    /\ a.reads = b.reads
    /\ (a.tag = "Ok" => a.val = b.val)

\* The record i of the table's region, decoded at its offset, when the
\* region holds it whole.
HoldsRecord(t, i) == (i + 1) * Entry_SIZE(t.entry) <= Len(t.slice)

DirectDecode(t, i) ==
    LET size == Entry_SIZE(t.entry)
    IN  Shifted(Entry_new(t.entry, SubSeq(t.slice, i * size + 1, (i + 1) * size),
                          t.encoding),
                i * size)

\* C3: pick(i) fails with the truncation error when (i+1)*RECORD_SIZE exceeds
\* the region's length, otherwise it returns the record decoded from
\* region[i*RECORD_SIZE .. (i+1)*RECORD_SIZE]; it never reads outside the region.
PickAsSpecified ==
    res.op = "pick" =>
        /\ IF Fits(res.index) /\ HoldsRecord(table, Val(res.index))
           THEN SameResult(res.r, DirectDecode(table, Val(res.index)))
           ELSE IsTruncation(res.r)
        /\ res.r.reads \subseteq 0..(Len(table.slice) - 1)

\* What pick does for the indices whose product with RECORD_SIZE is below 2^64.
PickSmallIndex ==
    (res.op = "pick" /\ res.index \notin HugeIndexes) =>
        /\ IF HoldsRecord(table, Val(res.index))
           THEN SameResult(res.r, DirectDecode(table, Val(res.index)))
           ELSE IsTruncation(res.r)
        /\ res.r.reads \subseteq 0..(Len(table.slice) - 1)

\* C5: each record decoder, given a region shorter than its record, returns
\* the truncation error without reading the region and without a panic.
ShortRegionRejected ==
    (res.op = "new" /\ Len(table.slice) < Entry_SIZE(table.entry)) =>
        /\ IsTruncation(res.r)
        /\ res.r.reads = {}

\* C5 happens: each decoder has been given a region one byte short.
ShortRegionSeen ==
    /\ res.op = "new"
    /\ table.entry = "ProgramHeader"
    /\ table.encoding = "Big"
    /\ Len(table.slice) = ProgramHeader_SIZE - 1
    /\ res.r.err = "NotEnoughData"

-----------------------------------------------------------------------------
(* String tables                                                           *)

\* Region lengths, terminator places and offsets lie within Near bytes of 0
\* and of MAX_LENGTH.
Near == 3

Around == (0..Near) \cup ((MAX_LENGTH - Near)..(MAX_LENGTH + Near))

\* Repeated texts: "A", U+00E9 in two bytes, and two bytes that are no text.
Texts == { << 65 >>, << 195, 169 >>, << 255 >>, << 65, 128 >> }

\* A region of len bytes repeating text, with a zero byte at offset zero_at
\* (none when zero_at is outside the region).
StrRegion(len, text, zero_at) ==
    [i \in 1..len |-> IF i - 1 = zero_at THEN 0 ELSE text[((i - 1) % Len(text)) + 1]]

StrOffsets == { W64(i) : i \in 0..Near } \cup HugeIndexes

InitString ==
    /\ profile \in Profiles
    /\ conv = NoConv
    /\ table = NoTable
    /\ \E len \in Around, text \in Texts, zero_at \in Around \cup {MAX_LENGTH + Near + 1} :
          strtab = StrRegion(len, text, zero_at)
    /\ notes = NoNotes
    /\ position = W64(0)
    /\ raw = << >>
    /\ elf = NoElf
    /\ res = NoRes

\* strtab.pick(offset)
StrPick ==
    /\ res.op = "none"
    /\ \E index \in StrOffsets :
          res' = [op |-> "str_pick", index |-> index,
                  r |-> StringTable_pick(strtab, index)]
    /\ UNCHANGED <<profile, conv, table, strtab, notes, position, raw, elf>>

NextString ==
    \/ StrPick
    \/ Drop

SpecString == InitString /\ [][NextString]_vars

\* The offsets from `at` on, inside the region, that hold a zero byte.
ZerosFrom(slice, at, upto) ==
    { j \in at..upto : j < Len(slice) /\ slice[j + 1] = 0 }

Least(S) == CHOOSE x \in S : \A y \in S : x <= y

\* C6: pick(offset) either returns exactly the bytes from offset up to the
\* first zero byte at or after offset, or fails; it fails when no zero byte
\* occurs within the 255-byte scan window or before the region ends.
StringPickStopsAtZero ==
    (res.op = "str_pick" /\ Fits(res.index)) =>
        LET at == Val(res.index)
            zeros == ZerosFrom(strtab, at, Len(strtab) - 1)
        IN  /\ res.r.tag # "Panic"
            /\ res.r.tag = "Ok" =>
                   /\ zeros # {}
                   /\ res.r.val = SubSeq(strtab, at + 1, Least(zeros))
            /\ ZerosFrom(strtab, at, at + MAX_LENGTH - 1) = {} => res.r.tag = "Err"

\* C6, as the code has it: with a zero byte among the 256 bytes from offset
\* the view ends at the first one; with none and offset + 255 inside the
\* region the view is the 255 bytes from offset; otherwise, and for an offset
\* at or past the end, pick fails with the truncation error.  A view that is
\* not valid text fails with the text error.
StringPickCapped ==
    res.op = "str_pick" =>
        IF ~Fits(res.index) \/ Val(res.index) >= Len(strtab) THEN IsTruncation(res.r)
        ELSE LET at == Val(res.index)
                 zeros == ZerosFrom(strtab, at, at + MAX_LENGTH)
                 view == IF zeros # {} THEN SubSeq(strtab, at + 1, Least(zeros))
                         ELSE SubSeq(strtab, at + 1, at + MAX_LENGTH)
             IN  IF zeros = {} /\ at + MAX_LENGTH >= Len(strtab) THEN IsTruncation(res.r)
                 ELSE IF Utf8Valid(view) THEN res.r.tag = "Ok" /\ res.r.val = view
                 ELSE res.r.tag = "Err" /\ res.r.err = "Utf8Error"

\* C6 happens: a pick stopped by the cap returned 255 bytes, and a pick
\* stopped by a zero byte returned the bytes before it.
StringPickCappedSeen ==
    /\ res.op = "str_pick"
    /\ res.r.tag = "Ok"
    /\ Len(res.r.val) = MAX_LENGTH
    /\ ZerosFrom(strtab, Val(res.index), Len(strtab) - 1) = {}

-----------------------------------------------------------------------------
(* Note tables                                                             *)

\* A region holds up to MaxNotes consecutive note records.
MaxNotes == 2

NameSizes == {0, 4, 7, 8}

DescSizes == {0, 3, 8}

\* The byte that fills names: "n", or a byte that is not text.
NameBytes == {110, 255}

Align8(x) == ((x + 7) \div 8) * 8

Store(word, encoding) == IF encoding = "Little" THEN word ELSE Reverse(word)

\* One note record: the 24-byte sub-header, the name and the description,
\* each padded with zero bytes to a multiple of 8.
NoteRecord(n, d, name_byte, encoding) ==
    Store(W64(n), encoding) \o Store(W64(d), encoding) \o Store(W64(1), encoding)
      \o [i \in 1..Align8(n) |-> IF i <= n THEN name_byte ELSE 0]
      \o [i \in 1..Align8(d) |-> IF i <= d THEN 208 ELSE 0]

RECURSIVE NoteRegion(_, _, _)
NoteRegion(shape, name_byte, encoding) ==
    IF shape = << >> THEN << >>
    ELSE NoteRecord(Head(shape)[1], Head(shape)[2], name_byte, encoding)
           \o NoteRegion(Tail(shape), name_byte, encoding)

InitNote ==
    /\ profile \in Profiles
    /\ conv = NoConv
    /\ table = NoTable
    /\ strtab = << >>
    /\ \E k \in 0..MaxNotes, encoding \in Encodings, name_byte \in NameBytes, cut \in 0..1 :
          \E shape \in [1..k -> NameSizes \X DescSizes] :
             LET region == NoteRegion(shape, name_byte, encoding)
             IN  notes = [slice |-> SubSeq(region, 1, Len(region) - cut),
                          encoding |-> encoding]
    /\ position = W64(0)
    /\ raw = << >>
    /\ elf = NoElf
    /\ res = NoRes

\* notes.next(&mut position)
NoteNext ==
    /\ LET out == NoteTable_next(notes, position, profile)
       IN  /\ res' = [op |-> "next", at |-> position, r |-> out.r]
           /\ position' = out.position
    /\ UNCHANGED <<profile, conv, table, strtab, notes, raw, elf>>

NextNote ==
    \/ NoteNext

SpecNote == InitNote /\ [][NextNote]_vars

\* The name and description lengths the sub-header at offset p declares.
DeclaredAt(p) ==
    [n |-> Val(read_u64(notes.slice, p, notes.encoding)),
     d |-> Val(read_u64(notes.slice, p + 8, notes.encoding))]

\* The two back-to-back records with (n, d) = (4, 0) and (7, 3), their names text.
IsTwoNoteRegion ==
    notes.slice = NoteRegion(<< <<4, 0>>, <<7, 3>> >>, 110, notes.encoding)

\* C7: a successful next called at position p takes n and d from the
\* sub-header at p and sets position to p + 24 + align8(n) + align8(d); over
\* the records (4,0), (7,3) the position goes 0, 32, 72 and the call at 72
\* fails with the truncation error.
NoteNextAdvances ==
    res.op = "next" =>
        /\ res.r.tag = "Ok" =>
               LET p == Val(res.at)
               IN  Val(position) = p + 24 + Align8(DeclaredAt(p).n) + Align8(DeclaredAt(p).d)
        /\ IsTwoNoteRegion =>
               /\ Val(position) \in {0, 32, 72}
               /\ (Val(res.at) = 72 => IsTruncation(res.r))
               /\ (res.r.tag # "Ok" => Val(res.at) = 72)

\* C8: the entry returned by next at position p exposes name as
\* region[p+24 .. p+24+n] and description as
\* region[p+24+align8(n) .. p+24+align8(n)+d], n and d being the declared
\* lengths: no padding in either view.
NoteViewsExact ==
    (res.op = "next" /\ res.r.tag = "Ok") =>
        LET p == Val(res.at)
            n == DeclaredAt(p).n
            d == DeclaredAt(p).d
        IN  /\ res.r.val.name = View(notes.slice, p + 24, p + 24 + n)
            /\ res.r.val.description =
                   View(notes.slice, p + 24 + Align8(n), p + 24 + Align8(n) + d)

-----------------------------------------------------------------------------
(* Header and the Elf64 facade                                             *)

Header_SIZE == 64

\* An error that carries a payload: UnknownEncoding(u8), UnexpectedSize(_).
ErrWith(e, payload) == [Err(e) EXCEPT !.val = <<payload>>]

\* Identifier::new refusing every class byte but 2.
Identifier_new_64_only(slice) ==
    IF ~(slice[0 + 1] = 127 /\ SubSeq(slice, 1 + 1, 4) = <<69, 76, 70>>)
    THEN Err("WrongMagicNumber")
    ELSE IF slice[4 + 1] # 2 THEN Err("WrongMagicNumber")
    ELSE LET encoding == Encoding_try_from(slice[5 + 1])
         IN  IF ~encoding.ok THEN ErrWith("UnknownEncoding", encoding.v)
             ELSE Ok([class       |-> Class_from(slice[4 + 1]),
                      encoding    |-> encoding.v,
                      version     |-> slice[6 + 1],
                      abi         |-> Abi_from(slice[7 + 1]),
                      abi_version |-> slice[8 + 1]],
                     0..8)

\* Identifier::new on the first 16 bytes.
Identifier_new(slice) ==
    IF ~(slice[0 + 1] = 127 /\ SubSeq(slice, 1 + 1, 4) = <<69, 76, 70>>)
    THEN Err("WrongMagicNumber")
    ELSE LET encoding == Encoding_try_from(slice[5 + 1])
         IN  IF ~encoding.ok THEN ErrWith("UnknownEncoding", encoding.v)
             ELSE Ok([class       |-> Class_from(slice[4 + 1]),
                      encoding    |-> encoding.v,
                      version     |-> slice[6 + 1],
                      abi         |-> Abi_from(slice[7 + 1]),
                      abi_version |-> slice[8 + 1]],
                     0..8)

\* The fields of one arm of the match in Header::new.
Header_fields(slice, identifier, encoding) ==
    Ok([identifier             |-> identifier,
        type_                  |-> Type_from(read_u16(slice, 16, encoding)),
        machine                |-> Machine_from(read_u16(slice, 18, encoding)),
        format_version         |-> read_u32(slice, 20, encoding),
        entry                  |-> read_u64(slice, 24, encoding),
        program_headers_offset |-> read_u64(slice, 32, encoding),
        section_headers_offset |-> read_u64(slice, 40, encoding),
        flags                  |-> read_u32(slice, 48, encoding),
        program_header_number  |-> read_u16(slice, 56, encoding),
        section_header_number  |-> read_u16(slice, 60, encoding),
        section_names          |-> Index_from(read_u16(slice, 62, encoding))],
       (0..8) \cup (16..63))

\* An arm of Header::new that takes the three sizes on trust.
Header_decode_unsized(slice, identifier, encoding) ==
    Header_fields(slice, identifier, encoding)

\* One arm of the match in Header::new: the three size checks, then the fields,
\* all read in the byte order `encoding`.
Header_decode(slice, identifier, encoding) ==
    IF read_u16(slice, 52, encoding) # Header_SIZE
    THEN ErrWith("UnexpectedSize", "Header")
    ELSE IF read_u16(slice, 54, encoding) # ProgramHeader_SIZE
    THEN ErrWith("UnexpectedSize", "ProgramHeader")
    ELSE IF read_u16(slice, 58, encoding) # SectionHeader_SIZE
    THEN ErrWith("UnexpectedSize", "SectionHeader")
    ELSE Header_fields(slice, identifier, encoding)

\* Header::new with the little-endian arm taken whatever the encoding byte says.
Header_new_little_only(slice) ==
    LET identifier == Identifier_new(SubSeq(slice, 1, 16))
    IN  IF identifier.tag # "Ok" THEN identifier
        ELSE Header_decode(slice, identifier.val, "Little")

\* Header::new on the first 64 bytes.
Header_new(slice) ==
    LET identifier == Identifier_new(SubSeq(slice, 1, 16))
    IN  IF identifier.tag # "Ok" THEN identifier
        ELSE Header_decode(slice, identifier.val, identifier.val.encoding)

\* The body shared by program_header_table and section_header_table:
\* end = start + bytes; raw.len() < end is the truncation error; &raw[start..end].
table_at(entry, start, bytes, raw_, encoding, prof) ==
    IF ~bytes.ok THEN Panic
    ELSE LET end == usize_add(start, bytes.v, prof)
         IN  IF ~end.ok THEN Panic
             ELSE IF LtW(W64(Len(raw_)), end.v) THEN Err("SliceTooShort")
             ELSE IF ~LeqW(start, end.v) THEN Panic
             ELSE Ok(Table_new(entry, SubSeq(raw_, Val(start) + 1, Val(end.v)), encoding),
                     {})

\* program_header_table with the count taken as the region's byte length.
Header_program_header_table_unscaled(header, raw_, prof) ==
    table_at("ProgramHeader", header.program_headers_offset,
             [ok |-> TRUE, v |-> W64(header.program_header_number)],
             raw_, header.identifier.encoding, prof)

Header_program_header_table(header, raw_, prof) ==
    table_at("ProgramHeader", header.program_headers_offset,
             usize_mul(W64(header.program_header_number), ProgramHeader_SIZE, prof),
             raw_, header.identifier.encoding, prof)

Header_section_header_table(header, raw_, prof) ==
    table_at("SectionHeader", header.section_headers_offset,
             usize_mul(W64(header.section_header_number), SectionHeader_SIZE, prof),
             raw_, header.identifier.encoding, prof)

\* Option<StringTable>
None == [some |-> FALSE, slice |-> << >>]

Some(slice) == [some |-> TRUE, slice |-> slice]

\* The `names` match with a section that is not a string table refused.
Elf64_names_strict(header, section_table, raw_, prof) ==
    IF header.section_names.tag # "Regular" THEN Ok(None, {})
    ELSE LET names_section == Table_pick(section_table, W64(header.section_names.v), prof)
         IN  IF names_section.tag # "Ok" THEN names_section
             ELSE IF names_section.val.type_.tag # "StringTable" THEN Err("SliceTooShort")
             ELSE Ok(Some(SubSeq(raw_, Val(names_section.val.offset) + 1,
                                 Val(names_section.val.offset)
                                   + Val(names_section.val.size))), {})

\* The `names` match leaving the names absent when the lookup of the named
\* section fails.
Elf64_names_lenient(header, section_table, raw_, prof) ==
    IF header.section_names.tag # "Regular" THEN Ok(None, {})
    ELSE LET names_section == Table_pick(section_table, W64(header.section_names.v), prof)
         IN  IF names_section.tag # "Ok" THEN Ok(None, {})
             ELSE IF names_section.val.type_.tag # "StringTable" THEN Ok(None, {})
             ELSE LET start == names_section.val.offset
                      end   == usize_add(start, names_section.val.size, prof)
                  IN  IF ~end.ok THEN Panic
                      ELSE IF ~(LeqW(start, end.v) /\ LeqW(end.v, W64(Len(raw_))))
                      THEN Panic
                      ELSE Ok(Some(SubSeq(raw_, Val(start) + 1, Val(end.v))), {})

\* The `names` match of Elf64::new: the section the header names, when it is
\* a string table, gives &raw[offset..offset + size].
Elf64_names(header, section_table, raw_, prof) ==
    IF header.section_names.tag # "Regular" THEN Ok(None, {})
    ELSE LET names_section == Table_pick(section_table, W64(header.section_names.v), prof)
         IN  IF names_section.tag # "Ok" THEN names_section
             ELSE IF names_section.val.type_.tag # "StringTable" THEN Ok(None, {})
             ELSE LET start == names_section.val.offset
                      end   == usize_add(start, names_section.val.size, prof)
                  IN  IF ~end.ok THEN Panic
                      ELSE IF ~(LeqW(start, end.v) /\ LeqW(end.v, W64(Len(raw_))))
                      THEN Panic
                      ELSE Ok(Some(SubSeq(raw_, Val(start) + 1, Val(end.v))), {})

\* Elf64::new(raw)
Elf64_new(raw_, prof) ==
    IF Len(raw_) < Header_SIZE THEN Err("SliceTooShort")
    ELSE LET header == Header_new(SubSeq(raw_, 1, Header_SIZE))
         IN  IF header.tag # "Ok" THEN header
             ELSE LET program_table == Header_program_header_table(header.val, raw_, prof)
                  IN  IF program_table.tag # "Ok" THEN program_table
                      ELSE LET section_table ==
                                   Header_section_header_table(header.val, raw_, prof)
                           IN  IF section_table.tag # "Ok" THEN section_table
                               ELSE LET names == Elf64_names(header.val, section_table.val,
                                                             raw_, prof)
                                    IN  IF names.tag # "Ok"
                                        THEN [names EXCEPT !.reads = {}]
                                        ELSE Ok([header        |-> header.val,
                                                 program_table |-> program_table.val,
                                                 section_table |-> section_table.val,
                                                 names         |-> names.val],
                                                {})

Elf64_class(self) == self.header.identifier.class

Elf64_entry(self) == self.header.entry

Elf64_program_number(self) == Table_length(self.program_table)

Elf64_section_number(self) == Table_length(self.section_table)

\* Option<Program> and Option<Section>
NoPayload == [some |-> FALSE]

Payload(p) == [some |-> TRUE, v |-> p]

\* The range with its last byte left out.
Elf64_range_short(raw_, start, size, prof) ==
    LET end == usize_add(start, size, prof)
    IN  IF ~end.ok THEN Panic
        ELSE IF LtW(W64(Len(raw_)), end.v) THEN Err("SliceTooShort")
        ELSE IF ~LeqW(start, end.v) THEN Panic
        ELSE IF start = end.v THEN Ok(View(raw_, Val(start), Val(end.v)), {})
        ELSE Ok(View(raw_, Val(start), Val(end.v) - 1), {})

\* let end = start + size; raw.len() < end is the truncation error;
\* &raw[start..end].  The range is returned with its place in the buffer.
Elf64_range(raw_, start, size, prof) ==
    LET end == usize_add(start, size, prof)
    IN  IF ~end.ok THEN Panic
        ELSE IF LtW(W64(Len(raw_)), end.v) THEN Err("SliceTooShort")
        ELSE IF ~LeqW(start, end.v) THEN Panic
        ELSE Ok(View(raw_, Val(start), Val(end.v)), {})

\* The match on program_header.type_ in Elf64::program: the payload, or a
\* text error, or the panic of unimplemented!.
ProgramData_of(program_header, slice, encoding) ==
    LET type_ == program_header.type_
    IN  CASE type_.tag \in {"Null", "Shlib", "ProgramHeaderTable"} -> Ok(NoPayload, {})
          [] type_.tag = "Load" ->
                 Ok(Payload([tag |-> "Load", data |-> slice,
                             address |-> program_header.virtual_address]), {})
          [] type_.tag = "Dynamic" -> Panic
          [] type_.tag = "Interpreter" ->
                 IF from_utf8(slice.bytes, {}).tag = "Ok"
                 THEN Ok(Payload([tag |-> "Interpreter", path |-> slice]), {})
                 ELSE Err("Utf8Error")
          [] type_.tag = "Note" ->
                 Ok(Payload([tag |-> "Note", at |-> slice.lo,
                             table |-> [slice |-> slice.bytes, encoding |-> encoding]]),
                    {})
          [] OTHER ->
                 Ok(Payload([tag |-> type_.tag, code |-> type_.v, data |-> slice,
                             address |-> program_header.virtual_address]), {})

\* Elf64::program(index)
Elf64_program(self, raw_, index, prof) ==
    LET program_header == Table_pick(self.program_table, index, prof)
    IN  IF program_header.tag # "Ok" THEN [program_header EXCEPT !.reads = {}]
        ELSE LET slice == Elf64_range(raw_, program_header.val.file_offset,
                                      program_header.val.file_size, prof)
             IN  IF slice.tag # "Ok" THEN slice
                 ELSE LET data == ProgramData_of(program_header.val, slice.val,
                                                 self.header.identifier.encoding)
                      IN  IF data.tag # "Ok" \/ ~data.val.some THEN data
                          ELSE Ok(Payload([data              |-> data.val.v,
                                           flags             |-> program_header.val.flags,
                                           memory_size       |-> program_header.val.memory_size,
                                           address_alignment |->
                                               program_header.val.address_alignment]),
                                  {})

\* u32 as usize, and u32 as u16
AsUsize(w) == w \o <<0, 0, 0, 0>>

AsU16(w) == w[1] + 256 * w[2]

\* section_header.info as the 32-bit integer Elf64::section casts: the field
\* at 0x2c of the record pick(index) decoded.
SectionHeader_info(t, index) ==
    read_u32(t.slice, Val(index) * SectionHeader_SIZE + 44, t.encoding)

\* The match on section_header.type_ in Elf64::section: the payload, or the
\* panic of unimplemented!.
SectionData_of(section_header, info, slice, encoding) ==
    LET type_ == section_header.type_
    IN  CASE type_.tag \in {"Null", "NoBits", "Shlib"} -> Ok(NoPayload, {})
          [] type_.tag = "ProgramBits" ->
                 Ok(Payload([tag |-> "ProgramBits", data |-> slice]), {})
          [] type_.tag \in {"SymbolTable", "DynamicSymbolTable"} ->
                 Ok(Payload([tag |-> type_.tag, at |-> slice.lo,
                             table |-> Table_new("SymbolEntry", slice.bytes, encoding),
                             number_of_locals |-> AsUsize(info)]), {})
          [] type_.tag = "StringTable" ->
                 Ok(Payload([tag |-> "StringTable", at |-> slice.lo,
                             table |-> slice.bytes]), {})
          [] type_.tag = "Rela" ->
                 Ok(Payload([tag |-> "Rela", at |-> slice.lo,
                             table |-> Table_new("RelaEntry", slice.bytes, encoding),
                             apply_to_section |-> Index_from(AsU16(info))]), {})
          [] type_.tag \in {"Hash", "Dynamic"} -> Panic
          [] type_.tag = "Note" ->
                 Ok(Payload([tag |-> "Note", at |-> slice.lo,
                             table |-> [slice |-> slice.bytes, encoding |-> encoding]]),
                    {})
          [] type_.tag = "Rel" ->
                 Ok(Payload([tag |-> "Rel", at |-> slice.lo,
                             table |-> Table_new("RelEntry", slice.bytes, encoding),
                             apply_to_section |-> Index_from(AsU16(info))]), {})
          [] OTHER ->
                 Ok(Payload([tag |-> type_.tag, code |-> type_.v, data |-> slice]), {})

\* The name match with the string table never consulted.
Elf64_section_name_absent(self, section_header) == Ok(<< >>, {})

\* The match on self.names in Elf64::section: the section's name.
Elf64_section_name(self, section_header) ==
    IF self.names.some
    THEN [StringTable_pick(self.names.slice, AsUsize(section_header.name))
            EXCEPT !.reads = {}]
    ELSE Ok(<< >>, {})

\* Elf64::section(index)
Elf64_section(self, raw_, index, prof) ==
    LET section_header == Table_pick(self.section_table, index, prof)
    IN  IF section_header.tag # "Ok" THEN [section_header EXCEPT !.reads = {}]
        ELSE LET slice == Elf64_range(raw_, section_header.val.offset,
                                      section_header.val.size, prof)
             IN  IF slice.tag # "Ok" THEN slice
                 ELSE LET data == SectionData_of(section_header.val,
                                                 SectionHeader_info(self.section_table, index),
                                                 slice.val,
                                                 self.header.identifier.encoding)
                          name == Elf64_section_name(self, section_header.val)
                      IN  IF data.tag # "Ok" THEN data
                          ELSE IF name.tag # "Ok" THEN name
                          ELSE IF ~data.val.some THEN data
                          ELSE Ok(Payload([data              |-> data.val.v,
                                           name              |-> name.val,
                                           flags             |-> section_header.val.flags,
                                           address           |-> section_header.val.address,
                                           address_alignment |->
                                               section_header.val.address_alignment,
                                           link              |-> section_header.val.link]),
                                  {})

-----------------------------------------------------------------------------
(* Buffers handed to Elf64::new                                            *)

\* Declared table counts 0..MaxCount, and up to MaxSections section headers
\* present after the file header.
MaxCount == 2

MaxSections == 2

\* The byte order a file with encoding byte `data` stores its fields in.
StoredAs(data) == IF data = 2 THEN "Big" ELSE "Little"

Store16(v, encoding) == Store(W(v, 2), encoding)

\* The 64-byte file header holding the fields of h.
HeaderImage(h) ==
    LET encoding == StoredAs(h.data)
    IN  h.magic \o <<h.class, h.data, h.version, h.abi, h.abi_version>>
          \o [i \in 1..7 |-> 0]
          \o Store16(h.type_, encoding) \o Store16(h.machine, encoding)
          \o Store(h.format_version, encoding)
          \o Store(h.entry, encoding)
          \o Store(h.program_headers_offset, encoding)
          \o Store(h.section_headers_offset, encoding)
          \o Store(h.flags, encoding)
          \o Store16(h.header_size, encoding)
          \o Store16(h.program_header_size, encoding)
          \o Store16(h.program_header_number, encoding)
          \o Store16(h.section_header_size, encoding)
          \o Store16(h.section_header_number, encoding)
          \o Store16(h.section_names, encoding)

\* A 64-bit little-endian file header with the three sizes right and every
\* other field zero.
PlainHeader ==
    [magic |-> <<127, 69, 76, 70>>,
     class |-> 2, data |-> 1, version |-> 0, abi |-> 0, abi_version |-> 0,
     type_ |-> 0, machine |-> 0, format_version |-> W32(0), entry |-> W64(0),
     program_headers_offset |-> W64(0), section_headers_offset |-> W64(0),
     flags |-> W32(0), header_size |-> Header_SIZE,
     program_header_size |-> ProgramHeader_SIZE, program_header_number |-> 0,
     section_header_size |-> SectionHeader_SIZE, section_header_number |-> 0,
     section_names |-> 0]

\* A 64-byte section header of the given type, offset and size, the rest zero.
SectionImage(type_, offset, size, encoding) ==
    Store(W32(0), encoding) \o Store(W32(type_), encoding) \o [i \in 1..16 |-> 0]
      \o Store(offset, encoding) \o Store(size, encoding) \o [i \in 1..24 |-> 0]

\* The section headers a buffer may hold: a null section, a string table
\* inside the buffer, a string table running past the buffer's end.
SectionKinds ==
    { [type_ |-> 0, offset |-> W64(0), size |-> W64(0)],
      [type_ |-> 3, offset |-> W64(0), size |-> W64(16)],
      [type_ |-> 3, offset |-> W64(64), size |-> W64(4096)] }

NullSection == [type_ |-> 0, offset |-> W64(0), size |-> W64(0)]

RECURSIVE SectionImages(_, _)
SectionImages(shape, encoding) ==
    IF shape = << >> THEN << >>
    ELSE SectionImage(Head(shape).type_, Head(shape).offset, Head(shape).size, encoding)
           \o SectionImages(Tail(shape), encoding)

\* 2^64 - 56: an offset whose sum with one program header's size passes 2^64.
HugeOffset == << 200, 255, 255, 255, 255, 255, 255, 255 >>

Offsets == { W64(0), W64(Header_SIZE), HugeOffset }

EntryAddresses == { W64(0), << 120, 86, 52, 18, 0, 0, 64, 128 >> }

\* Section-name indices: undefined, regular ones, and the reserved 0xff00,
\* 0xff3f, 0xfff1, 0xfff2.
NameIndexes == {0, 1, 2, 65280, 65343, 65521, 65522}

\* Bytes after the section headers.
Tails == {0, ProgramHeader_SIZE}

\* Buffers that vary the two tables' offsets and counts over null sections.
TableBuffers ==
    { HeaderImage([PlainHeader EXCEPT !.data = data,
                                      !.program_headers_offset = phoff,
                                      !.program_header_number = phnum,
                                      !.section_headers_offset = shoff,
                                      !.section_header_number = shnum])
        \o SectionImages([i \in 1..k |-> NullSection], StoredAs(data))
        \o Fill(tail, 1) :
      data \in {1, 2},
      phoff \in Offsets, phnum \in 0..MaxCount,
      shoff \in Offsets, shnum \in 0..MaxCount,
      k \in 0..MaxSections, tail \in Tails }

\* Bare headers that vary the entry address.
EntryBuffers ==
    { HeaderImage([PlainHeader EXCEPT !.data = data, !.entry = entry]) :
      data \in {1, 2}, entry \in EntryAddresses }

\* Buffers that vary the section the header names and what that section is.
NameBuffers ==
    UNION { { HeaderImage([PlainHeader EXCEPT !.data = data,
                                              !.section_headers_offset = W64(Header_SIZE),
                                              !.section_header_number = k,
                                              !.section_names = names])
                \o SectionImages(shape, StoredAs(data)) :
              shape \in [1..k -> SectionKinds] } :
            data \in {1, 2}, names \in NameIndexes, k \in 0..MaxSections }

\* The magic, and four prefixes that differ from it in one byte.
Magics ==
    { <<127, 69, 76, 70>>, <<0, 69, 76, 70>>, <<127, 101, 76, 70>>,
      <<127, 69, 0, 70>>, <<127, 69, 76, 71>> }

\* Encoding bytes: the two the format defines and three it does not.
EncodingBytes == {0, 1, 2, 3, 255}

\* Values of a size field: the right one, the right one byte-swapped
\* (0x4000 for 0x40, 0x3800 for 0x38), and one less.
SizeValues(size) == {size, size * 256, size - 1}

\* Headers with a wrong magic, encoding byte or size, over a program header
\* table that is inside the buffer or far outside it.
FaultBuffers ==
    { HeaderImage([PlainHeader EXCEPT !.magic = magic, !.data = data,
                                      !.header_size = hs,
                                      !.program_header_size = ps,
                                      !.section_header_size = ss,
                                      !.program_headers_offset = phoff,
                                      !.program_header_number = 1]) :
      magic \in Magics, data \in EncodingBytes,
      hs \in SizeValues(Header_SIZE), ps \in SizeValues(ProgramHeader_SIZE),
      ss \in SizeValues(SectionHeader_SIZE), phoff \in {W64(0), HugeOffset} }

\* Buffers shorter than a header.
ShortBuffers == { SubSeq(HeaderImage(PlainHeader), 1, n) : n \in {0, 3, 63} }

\* 2^64 - 1
MaxWord == << 255, 255, 255, 255, 255, 255, 255, 255 >>

\* A 56-byte program header holding the fields of p.
ProgramImage(p, encoding) ==
    Store(p.type_, encoding) \o Store(p.flags, encoding)
      \o Store(p.file_offset, encoding) \o Store(p.virtual_address, encoding)
      \o Store(p.physical_address, encoding) \o Store(p.file_size, encoding)
      \o Store(p.memory_size, encoding) \o Store(p.address_alignment, encoding)

\* Segment type codes: the named ones 0..6, 7 and 0x80000000 (unknown),
\* 0x60000005 (OS-specific), 0x70000001 (processor-specific).
ProgramTypeCodes ==
    { W32(i) : i \in 0..7 }
      \cup { << 5, 0, 0, 96 >>, << 1, 0, 0, 112 >>, << 0, 0, 0, 128 >> }

\* (file_offset, file_size) of a segment in a 128-byte buffer: the 8 bytes
\* after the program header, the program header with them, empty ranges at
\* the start and at the end, a range one byte past the end, and two whose
\* sum passes 2^64.
SegmentRanges ==
    { << W64(120), W64(8) >>, << W64(64), W64(64) >>, << W64(0), W64(0) >>,
      << W64(128), W64(0) >>, << W64(121), W64(8) >>,
      << HugeOffset, W64(56) >>, << W64(8), MaxWord >> }

\* Eight bytes that are text, and eight that are not.
Texts8 == { << 47, 108, 105, 98, 0, 0, 0, 0 >>, << 47, 255, 105, 98, 0, 0, 0, 0 >> }

\* Buffers of a header, one program header and 8 bytes.
ProgramBuffers ==
    { HeaderImage([PlainHeader EXCEPT !.data = data,
                                      !.program_headers_offset = W64(Header_SIZE),
                                      !.program_header_number = 1])
        \o ProgramImage([type_ |-> type_, flags |-> W32(5),
                         file_offset |-> range[1],
                         virtual_address |-> W64(4096),
                         physical_address |-> W64(8192),
                         file_size |-> range[2],
                         memory_size |-> W64(12288),
                         address_alignment |-> W64(16)], StoredAs(data))
        \o text :
      data \in {1, 2}, type_ \in ProgramTypeCodes, range \in SegmentRanges,
      text \in Texts8 }

\* A 64-byte section header holding the fields of h; bytes 0x0c..0x10 zero.
SectionImageOf(h, encoding) ==
    Store(h.name, encoding) \o Store(h.type_, encoding)
      \o Store(h.flags, encoding) \o <<0, 0, 0, 0>>
      \o Store(h.address, encoding) \o Store(h.offset, encoding)
      \o Store(h.size, encoding) \o Store(h.link, encoding)
      \o Store(h.info, encoding) \o Store(h.address_alignment, encoding)
      \o Store(h.number_of_entries, encoding)

\* Section type codes: the named ones 0..11, 12 (unknown), 0x60000005
\* (OS-specific), 0x70000001 (processor-specific).
SectionTypeCodes ==
    { W32(i) : i \in 0..12 } \cup { << 5, 0, 0, 96 >>, << 1, 0, 0, 112 >> }

\* (offset, size) of a section in a 200-byte buffer: the last 8 bytes, an
\* empty range, a range one byte past the end, and one whose sum passes 2^64.
SectionRanges ==
    { << W64(192), W64(8) >>, << W64(0), W64(0) >>, << W64(193), W64(8) >>,
      << HugeOffset, W64(56) >> }

\* The section-name string table of those buffers: "" at 0, "ab" at 1,
\* a byte that is not text at 4, "cc" without its terminator at 6.
NameTable == << 0, 97, 98, 0, 255, 0, 99, 99 >>

\* name fields: offsets 0, 1, 4 and 6 of the name table, and its end.
NameOffsets == {0, 1, 4, 6, 8}

\* info fields: 0, 5 and 0x0001fff1.
InfoValues == { W32(0), W32(5), << 241, 255, 1, 0 >> }

\* A buffer of a header, the section under test, the section that holds the
\* names, and the name table; the header names section `names`.
SectionBuffer(data, names, name, type_, range, info) ==
    HeaderImage([PlainHeader EXCEPT !.data = data,
                                    !.section_headers_offset = W64(Header_SIZE),
                                    !.section_header_number = 2,
                                    !.section_names = names])
      \o SectionImageOf([name |-> W32(name), type_ |-> type_, flags |-> W32(245),
                         address |-> W64(4096), offset |-> range[1],
                         size |-> range[2], link |-> W32(1), info |-> info,
                         address_alignment |-> W64(16),
                         number_of_entries |-> W64(24)], StoredAs(data))
      \o SectionImage(3, W64(192), W64(8), StoredAs(data))
      \o NameTable

\* Those buffers with the names resolved (section 1) over every name offset
\* and info value, and with no names (section 0 named) over one of each.
SectionBuffers ==
    { SectionBuffer(data, 1, name, type_, range, << 241, 255, 1, 0 >>) :
        data \in {1, 2}, name \in NameOffsets,
        type_ \in SectionTypeCodes, range \in SectionRanges }
      \cup
    { SectionBuffer(data, names, 1, type_, << W64(192), W64(8) >>, info) :
        data \in {1, 2}, names \in {0, 1},
        type_ \in SectionTypeCodes, info \in InfoValues }

\* Class bytes: 32-bit and three the format does not define (2 is the class
\* of every other buffer).
ClassBytes == {0, 1, 3, 255}

\* Buffers that decode to a text segment or to a named section.
ClassBase ==
    { b \in ProgramBuffers :
        /\ SubSeq(b, 121, 128) = << 47, 108, 105, 98, 0, 0, 0, 0 >>
        /\ read_u32(b, 64, StoredAs(b[5 + 1])) \in {W32(1), W32(3)}
        /\ read_u64(b, 72, StoredAs(b[5 + 1])) = W64(120)
        /\ read_u64(b, 96, StoredAs(b[5 + 1])) = W64(8) }
      \cup
    { SectionBuffer(data, 1, 1, type_, << W64(192), W64(8) >>, W32(5)) :
        data \in {1, 2}, type_ \in {W32(1), W32(3)} }

\* Those buffers under every other class byte.
ClassBuffers == { [b EXCEPT ![4 + 1] = c] : b \in ClassBase, c \in ClassBytes }

Buffers ==
    TableBuffers \cup EntryBuffers \cup NameBuffers \cup FaultBuffers \cup ShortBuffers
      \cup ProgramBuffers \cup SectionBuffers \cup ClassBuffers

Init ==
    /\ profile \in Profiles
    /\ conv = NoConv
    /\ table = NoTable
    /\ strtab = << >>
    /\ notes = NoNotes
    /\ position = W64(0)
    /\ raw \in Buffers
    /\ elf = NoElf
    /\ res = NoRes

\* Elf64::new(raw)
ElfNew ==
    /\ elf.tag = "none"
    /\ elf' = Elf64_new(raw, profile)
    /\ UNCHANGED <<profile, conv, table, strtab, notes, position, raw, res>>

\* elf.class()
ElfClass ==
    /\ elf.tag = "Ok" /\ res.op = "none"
    /\ res' = [op |-> "class", r |-> Ok(Elf64_class(elf.val), {})]
    /\ UNCHANGED <<profile, conv, table, strtab, notes, position, raw, elf>>

\* elf.entry()
ElfEntry ==
    /\ elf.tag = "Ok" /\ res.op = "none"
    /\ res' = [op |-> "entry", r |-> Ok(Elf64_entry(elf.val), {})]
    /\ UNCHANGED <<profile, conv, table, strtab, notes, position, raw, elf>>

\* elf.program_number()
ElfProgramNumber ==
    /\ elf.tag = "Ok" /\ res.op = "none"
    /\ res' = [op |-> "program_number", r |-> Ok(Elf64_program_number(elf.val), {})]
    /\ UNCHANGED <<profile, conv, table, strtab, notes, position, raw, elf>>

\* elf.section_number()
ElfSectionNumber ==
    /\ elf.tag = "Ok" /\ res.op = "none"
    /\ res' = [op |-> "section_number", r |-> Ok(Elf64_section_number(elf.val), {})]
    /\ UNCHANGED <<profile, conv, table, strtab, notes, position, raw, elf>>

\* Indices handed to program and section.
FacadeIndexes == { W64(i) : i \in 0..MaxCount }

\* program(index) taking the names out of the facade as it answers.
ElfProgram_taking ==
    /\ elf.tag = "Ok" /\ res.op = "none"
    /\ \E index \in FacadeIndexes :
          res' = [op |-> "program", index |-> index,
                  r |-> Elf64_program(elf.val, raw, index, profile)]
    /\ elf' = [elf EXCEPT !.val.names = None]
    /\ UNCHANGED <<profile, conv, table, strtab, notes, position, raw>>

\* elf.program(index)
ElfProgram ==
    /\ elf.tag = "Ok" /\ res.op = "none"
    /\ \E index \in FacadeIndexes :
          res' = [op |-> "program", index |-> index,
                  r |-> Elf64_program(elf.val, raw, index, profile)]
    /\ UNCHANGED <<profile, conv, table, strtab, notes, position, raw, elf>>

\* elf.section(index)
ElfSection ==
    /\ elf.tag = "Ok" /\ res.op = "none"
    /\ \E index \in FacadeIndexes :
          res' = [op |-> "section", index |-> index,
                  r |-> Elf64_section(elf.val, raw, index, profile)]
    /\ UNCHANGED <<profile, conv, table, strtab, notes, position, raw, elf>>

Next ==
    \/ ElfNew
    \/ ElfClass
    \/ ElfEntry
    \/ ElfProgramNumber
    \/ ElfSectionNumber
    \/ ElfProgram
    \/ ElfSection
    \/ Drop

Spec == Init /\ [][Next]_vars

\* The byte order and the two counts the buffer's header declares.
DeclaredEncoding == StoredAs(raw[5 + 1])

DeclaredProgramNumber == read_u16(raw, 56, DeclaredEncoding)

DeclaredSectionNumber == read_u16(raw, 60, DeclaredEncoding)

\* C4: after a successful Elf64::new, program_number() and section_number()
\* (Table::length, the region's byte length divided by the record size) equal
\* the counts the header declares, and pick(i) on either table does not fail
\* with the truncation error for any i below that count.
CountsAsDeclared ==
    elf.tag = "Ok" =>
        /\ res.op = "program_number" => res.r.val = DeclaredProgramNumber
        /\ res.op = "section_number" => res.r.val = DeclaredSectionNumber
        /\ Table_length(elf.val.program_table) = DeclaredProgramNumber
        /\ Table_length(elf.val.section_table) = DeclaredSectionNumber
        /\ \A i \in 0..(DeclaredProgramNumber - 1) :
              ~IsTruncation(Table_pick(elf.val.program_table, W64(i), profile))
        /\ \A i \in 0..(DeclaredSectionNumber - 1) :
              ~IsTruncation(Table_pick(elf.val.section_table, W64(i), profile))

\* program_number() has answered 2 on a buffer whose section table also
\* holds records.
CountsAsDeclaredSeen ==
    /\ elf.tag = "Ok"
    /\ res.op = "program_number" /\ res.r.val = 2
    /\ DeclaredSectionNumber >= 1

\* The 64-byte buffer of the minimal-header scenario: magic, class 2, encoding
\* byte 1 or 2, the sizes 0x40, 0x38, 0x40 in that byte order, any entry
\* address at 0x18, and zero everywhere else.
IsMinimalHeader ==
    /\ Len(raw) = 64
    /\ SubSeq(raw, 1, 4) = <<127, 69, 76, 70>>
    /\ raw[4 + 1] = 2
    /\ raw[5 + 1] \in {1, 2}
    /\ LET half(at) == IF raw[5 + 1] = 1 THEN raw[at + 1] + 256 * raw[at + 2]
                       ELSE 256 * raw[at + 1] + raw[at + 2]
       IN  half(52) = 64 /\ half(54) = 56 /\ half(58) = 64
    /\ \A i \in (6..23) \cup (32..51) \cup (56..57) \cup (60..63) : raw[i + 1] = 0

\* C9: on the minimal-header buffer Elf64::new succeeds, entry() is the 8
\* bytes at 0x18 read in the byte order the encoding byte names, and
\* program_number() and section_number() are 0.
MinimalHeaderAccepted ==
    IsMinimalHeader =>
        /\ elf.tag # "none" => elf.tag = "Ok"
        /\ res.op = "entry" =>
              \A k \in 1..8 :
                 res.r.val[k] = raw[24 + (IF raw[5 + 1] = 1 THEN k ELSE 9 - k)]
        /\ res.op = "program_number" => res.r.val = 0
        /\ res.op = "section_number" => res.r.val = 0

\* entry() has answered 0x8040000012345678 on a big-endian minimal header.
MinimalHeaderAcceptedSeen ==
    /\ IsMinimalHeader
    /\ raw[5 + 1] = 2
    /\ res.op = "entry" /\ res.r.val = << 120, 86, 52, 18, 0, 0, 64, 128 >>

\* offset + count * size is past the end of the buffer.
PastEnd(offset, count, size) ==
    ~Fits(offset) \/ Val(offset) + count * size > Len(raw)

\* C10: when the header is otherwise valid and the program header table's
\* offset + count * 0x38, or the section header table's offset + count * 0x40,
\* exceeds the buffer length, Elf64::new returns the truncation error.
TruncatedTablesRejected ==
    (elf.tag # "none" /\ Len(raw) >= Header_SIZE) =>
        LET header == Header_new(SubSeq(raw, 1, Header_SIZE))
        IN  ( /\ header.tag = "Ok"
              /\ \/ PastEnd(header.val.program_headers_offset,
                            header.val.program_header_number, ProgramHeader_SIZE)
                 \/ PastEnd(header.val.section_headers_offset,
                            header.val.section_header_number, SectionHeader_SIZE) )
            => IsTruncation(elf)

-----------------------------------------------------------------------------
(* Symbol records                                                          *)

IsReservedError(r) == r.tag = "Err" /\ r.err = "ReservedFieldIsNotZero"

\* The symbol record a call decoded: the whole region for E::new, the record
\* at index * SIZE for pick; -1 when the call decoded no whole symbol record.
SymbolRecordAt ==
    IF table.entry # "SymbolEntry" \/ res.op \notin {"new", "pick"} THEN -1
    ELSE IF res.op = "new"
         THEN (IF Len(table.slice) >= SymbolEntry_SIZE THEN 0 ELSE -1)
    ELSE IF Fits(res.index)
              /\ Val(res.index) <= MaxIndex
              /\ (Val(res.index) + 1) * SymbolEntry_SIZE <= Len(table.slice)
         THEN Val(res.index) * SymbolEntry_SIZE
    ELSE -1

\* C11: decoding a symbol record of at least 0x18 bytes fails with the
\* reserved-field error exactly when the record's byte at offset 0x05 is
\* non-zero, in either byte order and whatever the other bytes are.
ReservedByteDecides ==
    SymbolRecordAt >= 0 =>
        (IsReservedError(res.r) <=> table.slice[SymbolRecordAt + 5 + 1] # 0)

\* pick has rejected a big-endian record past the first for its reserved byte.
ReservedByteDecidesSeen ==
    /\ SymbolRecordAt > 0
    /\ table.encoding = "Big"
    /\ IsReservedError(res.r)

-----------------------------------------------------------------------------
(* The identifier and the size fields                                      *)

\* The n-byte field at offset `at` of the buffer, read little- or big-endian,
\* as a word.
FieldAt(at, n, little) == [k \in 1..n |-> raw[at + (IF little THEN k ELSE n + 1 - k)]]

HalfAt(at, little) == Val(FieldAt(at, 2, little))

HasMagic == SubSeq(raw, 1, 4) = <<127, 69, 76, 70>>

\* r is the error e carrying `payload`.
IsErrWith(r, e, payload) == r.tag = "Err" /\ r.err = e /\ r.val = <<payload>>

\* Elf64::new has run on a buffer that holds a whole header.
NewRanOnHeader == elf.tag # "none" /\ Len(raw) >= Header_SIZE

\* C12: with the magic and the encoding byte right, construction gets past
\* the header only if the 16-bit fields at 0x34, 0x36 and 0x3a, read in the
\* identifier's byte order, are 0x40, 0x38 and 0x40; otherwise it fails with
\* the size-mismatch error naming the first wrong field in the order header,
\* program header, section header, whatever the table offsets are.
SizesChecked ==
    (NewRanOnHeader /\ HasMagic /\ raw[5 + 1] \in {1, 2}) =>
        LET little == raw[5 + 1] = 1
            hs == HalfAt(52, little)
            ps == HalfAt(54, little)
            ss == HalfAt(58, little)
        IN  /\ hs # 64 => IsErrWith(elf, "UnexpectedSize", "Header")
            /\ (hs = 64 /\ ps # 56) => IsErrWith(elf, "UnexpectedSize", "ProgramHeader")
            /\ (hs = 64 /\ ps = 56 /\ ss # 64) =>
                   IsErrWith(elf, "UnexpectedSize", "SectionHeader")
            /\ (hs = 64 /\ ps = 56 /\ ss = 64) =>
                   ~(elf.tag = "Err" /\ elf.err = "UnexpectedSize")

\* A big-endian header whose program header size and section header size
\* are both wrong, over a table offset far outside the buffer, was rejected
\* for the program header size.
SizesCheckedSeen ==
    /\ NewRanOnHeader /\ HasMagic /\ raw[5 + 1] = 2
    /\ HalfAt(52, FALSE) = 64 /\ HalfAt(54, FALSE) # 56 /\ HalfAt(58, FALSE) # 64
    /\ FieldAt(32, 8, FALSE) = HugeOffset
    /\ IsErrWith(elf, "UnexpectedSize", "ProgramHeader")

\* C13: on a buffer of at least 0x40 bytes, a wrong magic gives the
\* wrong-magic error whatever the other bytes are; a right magic with
\* encoding byte b outside {1, 2} gives the unknown-encoding error carrying b;
\* and a constructed facade has every multi-byte header field read
\* little-endian for byte 1 and big-endian for byte 2, its tables decoding in
\* that byte order.
IdentifierDecides ==
    NewRanOnHeader =>
        /\ ~HasMagic => (elf.tag = "Err" /\ elf.err = "WrongMagicNumber")
        /\ (HasMagic /\ raw[5 + 1] \notin {1, 2}) =>
               IsErrWith(elf, "UnknownEncoding", raw[5 + 1])
        /\ elf.tag = "Ok" =>
               /\ raw[5 + 1] \in {1, 2}
               /\ LET little   == raw[5 + 1] = 1
                      encoding == IF little THEN "Little" ELSE "Big"
                      header   == elf.val.header
                  IN  /\ header.identifier.encoding = encoding
                      /\ header.type_ = Type_from(HalfAt(16, little))
                      /\ header.machine = Machine_from(HalfAt(18, little))
                      /\ header.format_version = FieldAt(20, 4, little)
                      /\ header.entry = FieldAt(24, 8, little)
                      /\ header.program_headers_offset = FieldAt(32, 8, little)
                      /\ header.section_headers_offset = FieldAt(40, 8, little)
                      /\ header.flags = FieldAt(48, 4, little)
                      /\ header.program_header_number = HalfAt(56, little)
                      /\ header.section_header_number = HalfAt(60, little)
                      /\ header.section_names = Index_from(HalfAt(62, little))
                      /\ elf.val.program_table.encoding = encoding
                      /\ elf.val.section_table.encoding = encoding

\* A header with the magic right, every size right and encoding byte 255 was
\* rejected as carrying 255.
IdentifierDecidesSeen ==
    /\ NewRanOnHeader /\ HasMagic
    /\ raw[5 + 1] = 255
    /\ HalfAt(52, TRUE) = 64 /\ HalfAt(54, TRUE) = 56 /\ HalfAt(58, TRUE) = 64
    /\ IsErrWith(elf, "UnknownEncoding", 255)

\* C14: Elf64::new returns a facade or an error value on every buffer and
\* never panics, a section-name section that is a string table with a byte
\* range outside the buffer included.
NewNeverAborts ==
    elf.tag # "Panic"

\* The same, on buffers whose two table ranges lie inside the buffer: what
\* is left is the range of the section-name string table.
NewNeverAbortsInRangeTables ==
    (NewRanOnHeader /\ elf.tag = "Panic") =>
        LET header == Header_new(SubSeq(raw, 1, Header_SIZE))
        IN  header.tag = "Ok"
              => \/ PastEnd(header.val.program_headers_offset,
                            header.val.program_header_number, ProgramHeader_SIZE)
                 \/ PastEnd(header.val.section_headers_offset,
                            header.val.section_header_number, SectionHeader_SIZE)

-----------------------------------------------------------------------------
(* program(index) and section(index)                                       *)

\* A facade was built and the last call was program (section) on an index
\* below the declared count.
ProgramCalled ==
    /\ elf.tag = "Ok" /\ res.op = "program"
    /\ Val(res.index) < DeclaredProgramNumber

SectionCalled ==
    /\ elf.tag = "Ok" /\ res.op = "section"
    /\ Val(res.index) < DeclaredSectionNumber

IsLittle == raw[5 + 1] = 1

\* Where in the buffer the record the call picked starts.
ProgramBase == Val(FieldAt(32, 8, IsLittle)) + Val(res.index) * ProgramHeader_SIZE

SectionBase == Val(FieldAt(40, 8, IsLittle)) + Val(res.index) * SectionHeader_SIZE

\* The picked record's type, and its byte range's offset and size.
ProgramTypeAt == ProgramType_from(FieldAt(ProgramBase, 4, IsLittle))

SectionTypeAt == SectionType_from(FieldAt(SectionBase + 4, 4, IsLittle))

ProgramOffset == FieldAt(ProgramBase + 8, 8, IsLittle)

ProgramSize == FieldAt(ProgramBase + 32, 8, IsLittle)

SectionOffset == FieldAt(SectionBase + 24, 8, IsLittle)

SectionSize == FieldAt(SectionBase + 32, 8, IsLittle)

\* offset + size, as numbers, is inside the buffer.
RangeInside(offset, size) ==
    Fits(offset) /\ Fits(size) /\ Val(offset) + Val(size) <= Len(raw)

\* An error value that is neither the truncation error nor the text error.
IsNotSupported(r) == r.tag = "Err" /\ ~IsTruncation(r) /\ r.err # "Utf8Error"

\* C15: program(i) on a segment of type Dynamic, and section(i) on a section
\* of type Hash or Dynamic, whose byte range is inside the buffer, return a
\* distinct "not supported" error value: no panic, no "no payload" result.
UnsupportedReported ==
    /\ ( /\ ProgramCalled
         /\ ProgramTypeAt.tag = "Dynamic"
         /\ RangeInside(ProgramOffset, ProgramSize) )
       => IsNotSupported(res.r)
    /\ ( /\ SectionCalled
         /\ SectionTypeAt.tag \in {"Hash", "Dynamic"}
         /\ RangeInside(SectionOffset, SectionSize) )
       => IsNotSupported(res.r)

\* The section the header names, when its index is a regular one below the
\* section count: where its record starts in the buffer.
NamedSectionBase ==
    Val(FieldAt(40, 8, IsLittle)) + HalfAt(62, IsLittle) * SectionHeader_SIZE

\* The header and both table ranges are good, and the header's section-name
\* index is not a regular one or names a section that is not a string table.
NamesAbsentCase ==
    /\ NewRanOnHeader
    /\ LET header == Header_new(SubSeq(raw, 1, Header_SIZE))
       IN  /\ header.tag = "Ok"
           /\ Header_program_header_table(header.val, raw, profile).tag = "Ok"
           /\ Header_section_header_table(header.val, raw, profile).tag = "Ok"
    /\ \/ Index_from(HalfAt(62, IsLittle)).tag # "Regular"
       \/ /\ HalfAt(62, IsLittle) < DeclaredSectionNumber
          /\ FieldAt(NamedSectionBase + 4, 4, IsLittle) # W32(3)

\* C16: when the header's section-name index is not a Regular index, or is
\* Regular and names a section that is not a string table, Elf64::new succeeds
\* with names absent, and every section(i) that returns a payload reports the
\* empty name.
AbsentNamesTolerated ==
    NamesAbsentCase =>
        /\ elf.tag = "Ok"
        /\ ~elf.val.names.some
        /\ (res.op = "section" /\ res.r.tag = "Ok" /\ res.r.val.some)
              => res.r.val.v.name = << >>

\* section(i) returned a payload with the empty name from a facade whose
\* header names a regular section that is not a string table.
AbsentNamesToleratedSeen ==
    /\ NamesAbsentCase
    /\ Index_from(HalfAt(62, IsLittle)).tag = "Regular"
    /\ res.op = "section" /\ res.r.tag = "Ok" /\ res.r.val.some
    /\ res.r.val.v.name = << >>

\* raw[offset .. offset + size] with its place in the buffer.
RangeOf(offset, size) == View(raw, Val(offset), Val(offset) + Val(size))

\* C17: program(i), for a program header that decodes and a byte range inside
\* the buffer, dispatches on the segment type: Null, Shlib, ProgramHeaderTable
\* give no payload; Load, OS-specific, processor-specific, unknown give
\* exactly raw[file_offset .. file_offset + file_size] with the virtual
\* address (and the type code for the last three); Note gives a NoteTable
\* over that range; Interpreter gives that range as text or the text error;
\* every payload carries the header's flags, memory size and alignment.
ProgramDispatch ==
    ( /\ ProgramCalled
      /\ RangeInside(ProgramOffset, ProgramSize)
      /\ ProgramTypeAt.tag # "Dynamic" )
    => LET tag   == ProgramTypeAt.tag
           range == RangeOf(ProgramOffset, ProgramSize)
           data  == res.r.val.v.data
       IN  /\ tag \in {"Null", "Shlib", "ProgramHeaderTable"}
                 => (res.r.tag = "Ok" /\ ~res.r.val.some)
           /\ tag \in {"Load", "OsSpecific", "ProcessorSprcific", "Unknown"}
                 => /\ res.r.tag = "Ok" /\ res.r.val.some
                    /\ data.tag = tag
                    /\ data.data = range
                    /\ data.address = FieldAt(ProgramBase + 16, 8, IsLittle)
                    /\ tag # "Load" => data.code = FieldAt(ProgramBase, 4, IsLittle)
           /\ tag = "Note"
                 => /\ res.r.tag = "Ok" /\ res.r.val.some
                    /\ data.tag = "Note"
                    /\ data.at = range.lo
                    /\ data.table.slice = range.bytes
                    /\ data.table.encoding = DeclaredEncoding
           /\ tag = "Interpreter"
                 => IF Utf8Valid(range.bytes)
                    THEN /\ res.r.tag = "Ok" /\ res.r.val.some
                         /\ data.tag = "Interpreter"
                         /\ data.path = range
                    ELSE res.r.tag = "Err" /\ res.r.err = "Utf8Error"
           /\ (res.r.tag = "Ok" /\ res.r.val.some)
                 => /\ res.r.val.v.flags = FieldAt(ProgramBase + 4, 4, IsLittle)
                    /\ res.r.val.v.memory_size = FieldAt(ProgramBase + 40, 8, IsLittle)
                    /\ res.r.val.v.address_alignment = FieldAt(ProgramBase + 48, 8, IsLittle)

\* program(0) returned the 8 bytes at 120 of a big-endian buffer as an
\* OS-specific payload.
ProgramDispatchSeen ==
    /\ ProgramCalled
    /\ ~IsLittle
    /\ ProgramTypeAt.tag = "OsSpecific"
    /\ res.r.tag = "Ok" /\ res.r.val.some
    /\ res.r.val.v.data.data = View(raw, 120, 128)

\* The header section(i) picked, as SectionHeader::new decodes it.
SectionHeaderAt == Table_pick(elf.val.section_table, res.index, profile).val

\* The info field of that header, as the file stores it.
SectionInfoAt == FieldAt(SectionBase + 44, 4, IsLittle)

\* The name the section-name string table gives that header: a result.
SectionNameAt ==
    IF elf.val.names.some
    THEN StringTable_pick(elf.val.names.slice,
                          AsUsize(FieldAt(SectionBase, 4, IsLittle)))
    ELSE Ok(<< >>, {})

\* C18: section(i), for a section header that decodes, a byte range inside
\* the buffer and a name that resolves, dispatches on the section type: Null,
\* NoBits, Shlib give no payload; ProgramBits and OS/processor/unknown give
\* exactly raw[offset .. offset + size]; SymbolTable and DynamicSymbolTable
\* give a symbol Table over that range with number_of_locals the info field;
\* Rela and Rel give a Table over that range with apply_to_section the Index
\* decoded from info; StringTable and Note give their view over that range;
\* the payload carries the header's name, flags, address, alignment and link.
SectionDispatch ==
    ( /\ SectionCalled
      /\ RangeInside(SectionOffset, SectionSize)
      /\ SectionTypeAt.tag \notin {"Hash", "Dynamic"}
      /\ SectionNameAt.tag = "Ok" )
    => LET tag   == SectionTypeAt.tag
           range == RangeOf(SectionOffset, SectionSize)
           data  == res.r.val.v.data
           table_over(entry) == Table_new(entry, range.bytes, DeclaredEncoding)
       IN  /\ res.r.tag = "Ok"
           /\ res.r.val.some <=> tag \notin {"Null", "NoBits", "Shlib"}
           /\ res.r.val.some => data.tag = tag
           /\ tag \in {"ProgramBits", "OsSpecific", "ProcessorSprcific", "Unknown"}
                 => /\ data.data = range
                    /\ tag # "ProgramBits"
                          => data.code = FieldAt(SectionBase + 4, 4, IsLittle)
           /\ tag \in {"SymbolTable", "DynamicSymbolTable"}
                 => /\ data.at = range.lo
                    /\ data.table = table_over("SymbolEntry")
                    /\ data.number_of_locals = AsUsize(SectionInfoAt)
           /\ tag \in {"Rela", "Rel"}
                 => /\ data.at = range.lo
                    /\ data.table = table_over(IF tag = "Rela" THEN "RelaEntry" ELSE "RelEntry")
                    /\ data.apply_to_section
                          = Index_from(SectionInfoAt[1] + 256 * SectionInfoAt[2])
           /\ tag = "StringTable"
                 => data.at = range.lo /\ data.table = range.bytes
           /\ tag = "Note"
                 => /\ data.at = range.lo
                    /\ data.table = [slice |-> range.bytes, encoding |-> DeclaredEncoding]
           /\ res.r.val.some
                 => /\ res.r.val.v.name = SectionNameAt.val
                    /\ res.r.val.v.flags = SectionHeaderAt.flags
                    /\ res.r.val.v.address = FieldAt(SectionBase + 16, 8, IsLittle)
                    /\ res.r.val.v.address_alignment = FieldAt(SectionBase + 48, 8, IsLittle)
                    /\ res.r.val.v.link = SectionHeaderAt.link

\* section(0) returned a Rela table over the last 8 bytes, named "ab", that
\* applies to the section 0xfff1 of an info field 0x0001fff1.
SectionDispatchSeen ==
    /\ SectionCalled
    /\ SectionTypeAt.tag = "Rela"
    /\ res.r.tag = "Ok" /\ res.r.val.some
    /\ res.r.val.v.name = << 97, 98 >>
    /\ res.r.val.v.data.at = 192
    /\ Len(res.r.val.v.data.table.slice) = 8
    /\ SectionInfoAt = << 241, 255, 1, 0 >>
    /\ res.r.val.v.data.apply_to_section = V("AbsoluteValue", 0)

\* C19: program(i) and section(i), for a header that decodes, fail with the
\* truncation error whenever offset + size, as a mathematical sum, exceeds
\* the buffer length, sums of 2^64 or more included, whatever the type.
RangeChecked ==
    /\ (ProgramCalled /\ ~RangeInside(ProgramOffset, ProgramSize))
          => IsTruncation(res.r)
    /\ (SectionCalled /\ ~RangeInside(SectionOffset, SectionSize))
          => IsTruncation(res.r)

\* The same for offsets and sizes below 2^31: the sum cannot wrap.
RangeCheckedUnwrapped ==
    /\ ( /\ ProgramCalled /\ Fits(ProgramOffset) /\ Fits(ProgramSize)
         /\ ~RangeInside(ProgramOffset, ProgramSize) )
          => IsTruncation(res.r)
    /\ ( /\ SectionCalled /\ Fits(SectionOffset) /\ Fits(SectionSize)
         /\ ~RangeInside(SectionOffset, SectionSize) )
          => IsTruncation(res.r)

\* C20: NoteTable::next fails with the truncation error when fewer than 24
\* bytes remain at *position, and when *position + 24 + align8(n) + align8(d),
\* n and d the lengths the sub-header at *position declares, exceeds the
\* region length; every failing call leaves *position unchanged.
NoteNextFails ==
    res.op = "next" =>
        LET p == Val(res.at)
        IN  /\ Len(notes.slice) < p + 24 => IsTruncation(res.r)
            /\ ( /\ Len(notes.slice) >= p + 24
                 /\ Len(notes.slice)
                      < p + 24 + Align8(DeclaredAt(p).n) + Align8(DeclaredAt(p).d) )
                  => IsTruncation(res.r)
            /\ res.r.tag # "Ok" => position = res.at

\* What of it the code keeps: fewer than 24 bytes left is the truncation
\* error, and a failing call leaves the position where it was.
NoteNextFailsKept ==
    res.op = "next" =>
        /\ Len(notes.slice) < Val(res.at) + 24 => IsTruncation(res.r)
        /\ res.r.tag # "Ok" => position = res.at

-----------------------------------------------------------------------------
(* String table views                                                      *)

\* C21: a successful StringTable::pick(offset) returns region[offset ..
\* offset + k] with k <= 255, no zero byte in it and all of it inside the
\* region; pick examines at most 256 bytes, all from offset on; and pick with
\* offset >= the region's length fails with the truncation error.
StringPickBounded ==
    res.op = "str_pick" =>
        /\ res.r.tag = "Ok" =>
              /\ Fits(res.index)
              /\ LET at == Val(res.index)
                     k  == Len(res.r.val)
                 IN  /\ k <= 255
                     /\ at + k <= Len(strtab)
                     /\ res.r.val = SubSeq(strtab, at + 1, at + k)
                     /\ \A i \in 1..k : res.r.val[i] # 0
        /\ res.r.reads # {} =>
              /\ Fits(res.index)
              /\ res.r.reads \subseteq Val(res.index)..(Val(res.index) + 255)
              /\ res.r.reads \subseteq 0..(Len(strtab) - 1)
        /\ (~Fits(res.index) \/ Val(res.index) >= Len(strtab)) => IsTruncation(res.r)

\* pick returned 255 bytes after looking at 256 of a region longer than that.
StringPickBoundedSeen ==
    /\ res.op = "str_pick"
    /\ res.r.tag = "Ok"
    /\ Len(res.r.val) = 255
    /\ Cardinality(res.r.reads) = 256
    /\ Len(strtab) > Val(res.index) + 256

-----------------------------------------------------------------------------
(* Relocation records                                                      *)

\* A call decoded a relocation record: E::new on the whole region, or pick.
RelocationDecoded ==
    /\ table.entry \in {"RelEntry", "RelaEntry"}
    /\ res.op \in {"new", "pick"}
    /\ res.r.tag = "Ok"

\* Where the decoded record starts in the region.
RelocationBase ==
    IF res.op = "new" THEN 0
    ELSE Val(MulW(res.index, Entry_SIZE(table.entry)).v)

\* The 64-bit field at offset `at` of that record, in the table's byte order.
RelocationField(at) ==
    [k \in 1..8 |->
        table.slice[RelocationBase + at
                      + (IF table.encoding = "Little" THEN k ELSE 9 - k)]]

\* a * 2^32 + b on 64-bit words, and whether it stayed below 2^64.
Packed(a, b) ==
    LET shifted == MulW(MulW(AsUsize(a), 65536).v, 65536)
        sum     == AddW(shifted.v, AsUsize(b))
    IN  [v |-> sum.v, ovf |-> shifted.ovf \/ sum.ovf \/ MulW(AsUsize(a), 65536).ovf]

\* C22: for the 64-bit value f at 0x08..0x10 of a Rel or Rela record,
\* symbol_index is f >> 32 and relocation_type is f mod 2^32, so that
\* symbol_index * 2^32 + relocation_type = f; the addend of a Rela record is
\* the two's-complement reading of the field at 0x10..0x18, negative exactly
\* when its top bit is set.
RelocationSplit ==
    RelocationDecoded =>
        LET f == RelocationField(8)
            entry == res.r.val
        IN  /\ entry.symbol_index = SubSeq(f, 5, 8)
            /\ entry.relocation_type = SubSeq(f, 1, 4)
            /\ Packed(entry.symbol_index, entry.relocation_type) = [v |-> f, ovf |-> FALSE]
            /\ table.entry = "RelaEntry" =>
                  /\ entry.addend.bits = RelocationField(16)
                  /\ entry.addend.neg <=> RelocationField(16)[8] >= 128

\* pick decoded a big-endian Rela record past the first whose addend is
\* negative and whose two halves of f differ.
RelocationSplitSeen ==
    /\ RelocationDecoded
    /\ table.entry = "RelaEntry" /\ table.encoding = "Big"
    /\ res.op = "pick" /\ RelocationBase > 0
    /\ res.r.val.addend.neg
    /\ res.r.val.symbol_index # res.r.val.relocation_type

-----------------------------------------------------------------------------
(* The facade under its accessors                                          *)

\* The facade Elf64::new builds from the buffer, before any accessor ran.
FreshFacade == Elf64_new(raw, profile).val

\* C23: once Elf64::new has succeeded, no accessor (class, entry,
\* program_number, section_number, program(i), section(i)) changes the
\* facade or the buffer, so whatever calls came before, program(i) and
\* section(i) answer what the same call answers on the fresh facade.
AccessorsPure ==
    [][elf.tag = "Ok" =>
          /\ elf' = elf
          /\ raw' = raw
          /\ res'.op = "program" =>
                res'.r = Elf64_program(FreshFacade, raw, res'.index, profile)
          /\ res'.op = "section" =>
                res'.r = Elf64_section(FreshFacade, raw, res'.index, profile)]_vars

\* section(0) has answered a named section with its data.
AccessorsPureSeen ==
    /\ elf.tag = "Ok"
    /\ res.op = "section" /\ res.index = W64(0)
    /\ res.r.tag = "Ok" /\ res.r.val.some
    /\ res.r.val.v.name = << 97, 98 >>
    /\ res.r = Elf64_section(FreshFacade, raw, res.index, profile)

-----------------------------------------------------------------------------
(* Driving a note table to its end                                         *)

\* Declared sizes that make the sums of next pass 2^64: 2^64 - 24 and
\* 2^64 - 1, beside 0 and 8.
WrapSizes ==
    { W64(0), W64(8), << 232, 255, 255, 255, 255, 255, 255, 255 >>, MaxWord }

\* A record whose sub-header declares the sizes n and d, followed by 8 bytes.
WrapRecord(n, d, encoding) ==
    Store(n, encoding) \o Store(d, encoding) \o Store(W64(1), encoding)
      \o << 110, 110, 110, 110, 110, 110, 110, 110 >>

\* The regions of InitNote, and the one-record regions of WrapRecord.
InitNoteDrive ==
    /\ profile \in Profiles
    /\ conv = NoConv
    /\ table = NoTable
    /\ strtab = << >>
    /\ \/ \E k \in 0..MaxNotes, encoding \in Encodings, cut \in 0..1 :
             \E shape \in [1..k -> NameSizes \X DescSizes] :
                LET region == NoteRegion(shape, 110, encoding)
                IN  notes = [slice |-> SubSeq(region, 1, Len(region) - cut),
                             encoding |-> encoding]
       \/ \E n \in WrapSizes, d \in WrapSizes, encoding \in Encodings :
             notes = [slice |-> WrapRecord(n, d, encoding), encoding |-> encoding]
    /\ position = W64(0)
    /\ raw = << >>
    /\ elf = NoElf
    /\ res = NoRes

SpecNoteDrive == InitNoteDrive /\ [][NextNote]_vars

\* Calling next from pos until a call does not succeed, at most fuel + 1
\* times: the number of successful calls and how the last call ended.
RECURSIVE Drive(_, _, _, _)
Drive(t, pos, prof, fuel) ==
    LET step == NoteTable_next(t, pos, prof)
    IN  IF step.r.tag # "Ok" THEN [calls |-> 0, last |-> step.r.tag]
        ELSE IF fuel = 0 THEN [calls |-> 1, last |-> "Ok"]
        ELSE LET rest == Drive(t, step.position, prof, fuel - 1)
             IN  [calls |-> 1 + rest.calls, last |-> rest.last]

\* The iteration over the region from position 0.
Driven == Drive(notes, W64(0), profile, Len(notes.slice) \div 24 + 1)

\* What C24 says of the successful calls: each moves the position forward by
\* at least 24 and not past the region's end, and there are at most
\* floor(len / 24) of them from position 0.
NoteIterationBounded ==
    /\ (res.op = "next" /\ res.r.tag = "Ok") =>
          /\ ~AddW(res.at, W64(24)).ovf
          /\ LeqW(AddW(res.at, W64(24)).v, position)
          /\ LeqW(position, W64(Len(notes.slice)))
    /\ Driven.calls <= Len(notes.slice) \div 24
    /\ Driven.last # "Ok"

\* C24: every successful NoteTable::next moves *position forward by at least
\* 24 and leaves it no larger than the region's length, so from position 0
\* there are at most floor(len / 24) successful calls, and the iteration
\* ends with a call that fails (returns an error).
NoteIterationEnds ==
    /\ NoteIterationBounded
    /\ (res.op = "next" /\ res.r.tag # "Ok") =>
          /\ res.r.tag = "Err"
          /\ Driven.last = "Err"

-----------------------------------------------------------------------------
(* The class byte                                                          *)

\* The buffer with its class byte set to 2 (64-bit).
As64 == [raw EXCEPT ![4 + 1] = 2]

\* C25: Elf64::new does not validate the class byte: the buffer is accepted
\* or refused exactly as the same buffer of class 2 is, and program(i) and
\* section(i) decode it with the 64-bit layouts to the same results, whatever
\* byte 0x04 holds; class() reports that byte's decoded value.
ClassIgnored ==
    (elf.tag # "none" /\ Len(raw) >= Header_SIZE) =>
        LET as64 == Elf64_new(As64, profile)
        IN  /\ elf.tag = as64.tag
            /\ elf.tag = "Err" => (elf.err = as64.err /\ elf.val = as64.val)
            /\ elf.tag = "Ok" =>
                  /\ elf.val = [as64.val EXCEPT
                                  !.header.identifier.class = Class_from(raw[4 + 1])]
                  /\ res.op = "class" => res.r.val = Class_from(raw[4 + 1])
                  /\ res.op = "program" =>
                        res.r = Elf64_program(as64.val, As64, res.index, profile)
                  /\ res.op = "section" =>
                        res.r = Elf64_section(as64.val, As64, res.index, profile)

\* section(0) has answered a named section with its data on a buffer of
\* class 1 (32-bit).
ClassIgnoredSeen ==
    /\ elf.tag = "Ok" /\ raw[4 + 1] = 1
    /\ elf.val.header.identifier.class = Class_from(1)
    /\ res.op = "section" /\ res.index = W64(0)
    /\ res.r.tag = "Ok" /\ res.r.val.some
    /\ res.r.val.v.name = << 97, 98 >>

-----------------------------------------------------------------------------
(* The section the header names                                            *)

\* The 16-bit section-name index of the header, in the header's byte order.
DeclaredNames == HalfAt(62, raw[5 + 1] = 1)

\* The header decodes, both tables lie inside the buffer, and the
\* section-name index is Regular(i) with i at or past the declared count.
NamesIndexPastCount ==
    /\ Len(raw) >= Header_SIZE
    /\ LET header == Header_new(SubSeq(raw, 1, Header_SIZE))
       IN  /\ header.tag = "Ok"
           /\ ~PastEnd(header.val.program_headers_offset,
                       header.val.program_header_number, ProgramHeader_SIZE)
           /\ ~PastEnd(header.val.section_headers_offset,
                       header.val.section_header_number, SectionHeader_SIZE)
    /\ Index_from(DeclaredNames).tag = "Regular"
    /\ DeclaredNames >= DeclaredSectionNumber

\* C26: when the header's section-name index is Regular(i) with i >= the
\* declared section-header count, Elf64::new fails with the truncation error:
\* the failed lookup of the name section is propagated.
NamesIndexChecked ==
    (elf.tag # "none" /\ NamesIndexPastCount) => IsTruncation(elf)

\* Elf64::new has refused a big-endian buffer of two section headers whose
\* header names section 2.
NamesIndexCheckedSeen ==
    /\ NamesIndexPastCount
    /\ raw[5 + 1] = 2 /\ DeclaredNames = 2 /\ DeclaredSectionNumber = 2
    /\ IsTruncation(elf)

-----------------------------------------------------------------------------
(* Names that do not resolve                                               *)

\* section(i) was called with a section-name string table present, and the
\* lookup of the header's name offset in it fails.
NameLookupFails ==
    /\ SectionCalled
    /\ elf.val.names.some
    /\ SectionNameAt.tag = "Err"

\* What C27 says of the section types the code decodes: with the byte range
\* inside the buffer, section(i) returns the error of the failed name lookup,
\* for Null, NoBits and Shlib as for the types that carry a payload.
NameFailurePropagatedDecoded ==
    ( /\ NameLookupFails
      /\ SectionTypeAt.tag \notin {"Hash", "Dynamic"}
      /\ RangeInside(SectionOffset, SectionSize) )
    => /\ res.r.tag = "Err"
       /\ res.r.err = SectionNameAt.err

\* C27: when a section-name string table is present, section(i) returns an
\* error whenever the lookup of the section header's name offset in that
\* table fails (offset at or past the table's end, no terminator before the
\* end, or invalid text), whatever the section's type, Null, NoBits and
\* Shlib included.
NameFailurePropagated ==
    NameLookupFails => res.r.tag = "Err"

====
